---- MODULE Spec2Model ----
(***************************************************************************)
(* Projectile Motion Solver (projectile_motion/src/main.cpp).              *)
(*                                                                         *)
(* The program's float values are modelled as fixed-point integers with    *)
(* three decimals (value * Scale).  Products and quotients are rounded to  *)
(* the nearest representable value, sqrtf is the floor square root of the  *)
(* fixed-point radicand, sinf/cosf/atan2f are rational approximations.     *)
(***************************************************************************)
EXTENDS Integers, Sequences, FiniteSets, TLC

(* ------------------------------ bounds -------------------------------- *)

\* committed edits and clears explored per run of the general specification
MaxEdits == 2

\* committed edits explored per run of the scenario specification
MaxScenEdits == 3

\* cells cleared after the consistent tuple has been entered (round trip)
MaxClears == 1

\* largest time of the tuples entered for the round trip
MaxT == 2

\* committed edits and clears explored per run with autoSolve taken step by step
MaxStepEdits == 2

\* committed edits and clears explored per run of the fair specification
MaxFairEdits == 1

\* magnitude of the values in the frames the catalogue rules are applied to
MaxMag == 2
MaxKeyEdits == 1
MaxDigits == 2

(* ------------------------- program constants -------------------------- *)

Scale == 1000

VAR_COUNT == 7
ROWS == 7
COLS == 2
GRAVITY == 9810
IterCap == 20
PassCount == 3
EqCap == 60
TimeEps == 1
InputCap == 10
BufSize == 12

Idx == 0 .. (VAR_COUNT - 1)

\* F applied to the value of x: sequential composition, x is evaluated once
Then(x, F(_)) == CHOOSE r \in {F(v) : v \in {x}} : TRUE

(* --------------------------- float arithmetic ------------------------- *)

Abs(x) == IF x < 0 THEN -x ELSE x

Sgn(x) == IF x < 0 THEN -1 ELSE 1

\* n / d rounded to the nearest integer, halves away from zero (d # 0)
RoundDiv(n, d) ==
    Sgn(n) * Sgn(d) * ((Abs(n) \div Abs(d))
                       + (IF 2 * (Abs(n) % Abs(d)) >= Abs(d) THEN 1 ELSE 0))

\* a * b / Scale, rounded; the product is formed in two parts to stay in range
FMul(a, b) ==
    Sgn(a) * Sgn(b) * ((Abs(a) \div Scale) * Abs(b)
                       + RoundDiv((Abs(a) % Scale) * Abs(b), Scale))

\* a * Scale / b, rounded; quotient and remainder are scaled separately (b # 0)
FDiv(a, b) ==
    Sgn(a) * Sgn(b) * ((Abs(a) \div Abs(b)) * Scale
                       + RoundDiv((Abs(a) % Abs(b)) * Scale, Abs(b)))

\* r * r <= x * Scale, the square formed in parts to stay in range
SquareFits(r, x) ==
    LET rh == r \div Scale
        rl == r % Scale
        q == rh * rh * Scale + 2 * rh * rl + (rl * rl) \div Scale
    IN  q < x \/ (q = x /\ (rl * rl) % Scale = 0)

\* sqrtf on a fixed-point radicand x >= 0: the largest r with r * r <= x * Scale,
\* found digit by digit in base 216 (three digits, the leading one up to 30)
FSqrt(x) ==
    LET step == 216
        top == CHOOSE h \in 0 .. 30 :
                   /\ SquareFits(h * step * step, x)
                   /\ (h = 30 \/ ~SquareFits((h + 1) * step * step, x))
        b1 == top * step * step
        mid == CHOOSE m \in 0 .. (step - 1) :
                   /\ SquareFits(b1 + m * step, x)
                   /\ (m = step - 1 \/ ~SquareFits(b1 + (m + 1) * step, x))
        b2 == b1 + mid * step
    IN  b2 + (CHOOSE l \in 0 .. (step - 1) :
                   /\ SquareFits(b2 + l, x)
                   /\ (l = step - 1 \/ ~SquareFits(b2 + l + 1, x)))

\* sinf(deg * DEG_TO_RAD): Bhaskara's approximation on whole degrees
SinWhole(w) ==
    LET r == w % 360
        h == IF r > 180 THEN r - 180 ELSE r
        p == h * (180 - h)
        s == RoundDiv(4 * p * Scale, 40500 - p)
    IN  IF r > 180 THEN -s ELSE s

SinDeg(deg) == SinWhole(RoundDiv(deg, Scale))

CosDeg(deg) == SinWhole(RoundDiv(deg, Scale) + 90)

\* atan of a ratio z in [0, 1], in degrees
AtanUnit(z) == FMul(z, 45 * Scale + FMul(15640, Scale - z))

\* atan2f(y, x) * RAD_TO_DEG
Atan2Deg(y, x) ==
    IF x = 0 /\ y = 0 THEN 0
    ELSE LET ax == Abs(x)
             ay == Abs(y)
             base == IF ax >= ay THEN AtanUnit(FDiv(ay, ax))
                     ELSE 90 * Scale - AtanUnit(FDiv(ax, ay))
             half == IF x < 0 THEN 180 * Scale - base ELSE base
         IN  IF y < 0 THEN -half ELSE half

(* ------------------------------ provenance ---------------------------- *)

\* strlen of a rule identifier passed to addEq
EqLen(eq) ==
    CASE eq \in {"t = d / vf", "t = d / v0"} -> 10
      [] eq \in {"d = pf - p0", "pf = p0 + d", "p0 = pf - d"} -> 11
      [] eq \in {"vf = v0 (a=0)", "v0 = vf (a=0)", "vf = v0 + a*t", "v0 = vf - a*t"} -> 13
      [] eq \in {"t = (vf - v0) / a", "a = (vf - v0) / t",
                 "v0 = 2*d / t - vf", "vf = 2*d / t - v0"} -> 17
      [] eq \in {"d = v0*t + .5*a*t^2", "t = 2*d / (v0 + vf)", "d = vf*t - .5*a*t^2",
                 "vf^2 = v0^2 + 2*a*d", "v0^2 = vf^2 - 2*a*d"} -> 19
      [] eq \in {"a = 2(d - v0*t) / t^2", "d = (v0 + vf) * t / 2",
                 "a = 2(vf*t - d) / t^2"} -> 21
      [] OTHER -> 23

RECURSIVE StrLen(_)
\* strlen of the provenance string: the identifiers joined by "|"
StrLen(eqUsed) ==
    IF eqUsed = <<>> THEN 0
    ELSE EqLen(Head(eqUsed)) + (IF Len(eqUsed) > 1 THEN 1 ELSE 0) + StrLen(Tail(eqUsed))

\* no identifier is a substring of another, so strstr is membership
addEq(eqUsed, eq) ==
    IF \E i \in 1 .. Len(eqUsed) : eqUsed[i] = eq THEN eqUsed
    ELSE IF eqUsed = <<>> THEN <<eq>>
    ELSE IF StrLen(eqUsed) + EqLen(eq) + 2 < EqCap THEN Append(eqUsed, eq)
    ELSE eqUsed

(* -------------------------- equation catalogue ------------------------ *)
(* L is the local frame of trySolve: the seven values p0 .. t, their      *)
(* flags kp0 .. kt and the provenance string eq.                          *)

Half == 500

HalfATT(L) == FMul(FMul(FMul(Half, L.a), L.t), L.t)

RuleDFromPos(L) ==
    IF ~L.kd /\ L.kp0 /\ L.kpf
    THEN [L EXCEPT !.d = L.pf - L.p0, !.kd = TRUE, !.eq = addEq(L.eq, "d = pf - p0")]
    ELSE L

\* faulty variant: the displacement is subtracted
RulePfFromPosMinus(L) ==
    IF ~L.kpf /\ L.kp0 /\ L.kd
    THEN [L EXCEPT !.pf = L.p0 - L.d, !.kpf = TRUE, !.eq = addEq(L.eq, "pf = p0 + d")]
    ELSE L

RulePfFromPos(L) ==
    IF ~L.kpf /\ L.kp0 /\ L.kd
    THEN [L EXCEPT !.pf = L.p0 + L.d, !.kpf = TRUE, !.eq = addEq(L.eq, "pf = p0 + d")]
    ELSE L

RuleP0FromPos(L) ==
    IF ~L.kp0 /\ L.kpf /\ L.kd
    THEN [L EXCEPT !.p0 = L.pf - L.d, !.kp0 = TRUE, !.eq = addEq(L.eq, "p0 = pf - d")]
    ELSE L

\* a candidate time is stored in t even when it is rejected
AcceptTime(L, tt, eq) ==
    IF tt >= 0 THEN [L EXCEPT !.t = tt, !.kt = TRUE, !.eq = addEq(L.eq, eq)]
    ELSE [L EXCEPT !.t = tt]

RuleTLinear(L) ==
    IF ~L.kt /\ L.kv0 /\ L.kvf /\ L.ka /\ L.a # 0
    THEN AcceptTime(L, FDiv(L.vf - L.v0, L.a), "t = (vf - v0) / a")
    ELSE L

RuleVfZeroA(L) ==
    IF ~L.kvf /\ L.kv0 /\ L.ka /\ L.a = 0
    THEN [L EXCEPT !.vf = L.v0, !.kvf = TRUE, !.eq = addEq(L.eq, "vf = v0 (a=0)")]
    ELSE L

RuleV0ZeroA(L) ==
    IF ~L.kv0 /\ L.kvf /\ L.ka /\ L.a = 0
    THEN [L EXCEPT !.v0 = L.vf, !.kv0 = TRUE, !.eq = addEq(L.eq, "v0 = vf (a=0)")]
    ELSE L

RuleVfFromAT(L) ==
    IF ~L.kvf /\ L.kv0 /\ L.ka /\ L.kt
    THEN [L EXCEPT !.vf = L.v0 + FMul(L.a, L.t), !.kvf = TRUE,
                   !.eq = addEq(L.eq, "vf = v0 + a*t")]
    ELSE L

RuleV0FromAT(L) ==
    IF ~L.kv0 /\ L.kvf /\ L.ka /\ L.kt
    THEN [L EXCEPT !.v0 = L.vf - FMul(L.a, L.t), !.kv0 = TRUE,
                   !.eq = addEq(L.eq, "v0 = vf - a*t")]
    ELSE L

\* faulty variant: no guard on t, the quotient by zero taken as 0
RuleAFromVTUnguarded(L) ==
    IF ~L.ka /\ L.kv0 /\ L.kvf /\ L.kt
    THEN [L EXCEPT !.a = IF L.t = 0 THEN 0 ELSE FDiv(L.vf - L.v0, L.t), !.ka = TRUE,
                   !.eq = addEq(L.eq, "a = (vf - v0) / t")]
    ELSE L

RuleAFromVT(L) ==
    IF ~L.ka /\ L.kv0 /\ L.kvf /\ L.kt /\ L.t # 0
    THEN [L EXCEPT !.a = FDiv(L.vf - L.v0, L.t), !.ka = TRUE,
                   !.eq = addEq(L.eq, "a = (vf - v0) / t")]
    ELSE L

\* faulty variant: the factor t of the first term is dropped
RuleDFromV0NoT(L) ==
    IF ~L.kd /\ L.kv0 /\ L.kt /\ L.ka
    THEN [L EXCEPT !.d = L.v0 + HalfATT(L), !.kd = TRUE,
                   !.eq = addEq(L.eq, "d = v0*t + .5*a*t^2")]
    ELSE L

RuleDFromV0(L) ==
    IF ~L.kd /\ L.kv0 /\ L.kt /\ L.ka
    THEN [L EXCEPT !.d = FMul(L.v0, L.t) + HalfATT(L), !.kd = TRUE,
                   !.eq = addEq(L.eq, "d = v0*t + .5*a*t^2")]
    ELSE L

RuleV0FromD(L) ==
    IF ~L.kv0 /\ L.kd /\ L.kt /\ L.ka /\ L.t # 0
    THEN [L EXCEPT !.v0 = FDiv(L.d - HalfATT(L), L.t), !.kv0 = TRUE,
                   !.eq = addEq(L.eq, "v0 = (d - .5*a*t^2) / t")]
    ELSE L

RuleAFromDV0(L) ==
    IF ~L.ka /\ L.kv0 /\ L.kd /\ L.kt /\ L.t # 0
    THEN [L EXCEPT !.a = FDiv(2 * (L.d - FMul(L.v0, L.t)), FMul(L.t, L.t)), !.ka = TRUE,
                   !.eq = addEq(L.eq, "a = 2(d - v0*t) / t^2")]
    ELSE L

RuleDAverage(L) ==
    IF ~L.kd /\ L.kv0 /\ L.kvf /\ L.kt
    THEN [L EXCEPT !.d = FMul(FMul(L.v0 + L.vf, Half), L.t), !.kd = TRUE,
                   !.eq = addEq(L.eq, "d = (v0 + vf) * t / 2")]
    ELSE L

RuleTAverage(L) ==
    IF ~L.kt /\ L.kv0 /\ L.kvf /\ L.kd /\ (L.v0 + L.vf) # 0
    THEN AcceptTime(L, FDiv(2 * L.d, L.v0 + L.vf), "t = 2*d / (v0 + vf)")
    ELSE L

RuleV0Average(L) ==
    IF ~L.kv0 /\ L.kvf /\ L.kd /\ L.kt /\ L.t # 0
    THEN [L EXCEPT !.v0 = FDiv(2 * L.d, L.t) - L.vf, !.kv0 = TRUE,
                   !.eq = addEq(L.eq, "v0 = 2*d / t - vf")]
    ELSE L

RuleVfAverage(L) ==
    IF ~L.kvf /\ L.kv0 /\ L.kd /\ L.kt /\ L.t # 0
    THEN [L EXCEPT !.vf = FDiv(2 * L.d, L.t) - L.v0, !.kvf = TRUE,
                   !.eq = addEq(L.eq, "vf = 2*d / t - v0")]
    ELSE L

RuleDFromVf(L) ==
    IF ~L.kd /\ L.kvf /\ L.kt /\ L.ka
    THEN [L EXCEPT !.d = FMul(L.vf, L.t) - HalfATT(L), !.kd = TRUE,
                   !.eq = addEq(L.eq, "d = vf*t - .5*a*t^2")]
    ELSE L

RuleVfFromD(L) ==
    IF ~L.kvf /\ L.kd /\ L.kt /\ L.ka /\ L.t # 0
    THEN [L EXCEPT !.vf = FDiv(L.d + HalfATT(L), L.t), !.kvf = TRUE,
                   !.eq = addEq(L.eq, "vf = (d + .5*a*t^2) / t")]
    ELSE L

RuleAFromDVf(L) ==
    IF ~L.ka /\ L.kvf /\ L.kd /\ L.kt /\ L.t # 0
    THEN [L EXCEPT !.a = FDiv(2 * (FMul(L.vf, L.t) - L.d), FMul(L.t, L.t)), !.ka = TRUE,
                   !.eq = addEq(L.eq, "a = 2(vf*t - d) / t^2")]
    ELSE L

\* faulty variant: the smaller non-negative root is preferred
PickRootSmallest(L, t1, t2, eq) ==
    LET tMax == IF t1 > t2 THEN t1 ELSE t2
        tMin == IF t1 < t2 THEN t1 ELSE t2
    IN  IF tMin >= 0 THEN [L EXCEPT !.t = tMin, !.kt = TRUE, !.eq = addEq(L.eq, eq)]
        ELSE IF tMax > TimeEps THEN [L EXCEPT !.t = tMax, !.kt = TRUE, !.eq = addEq(L.eq, eq)]
        ELSE L

\* tie-break between the two roots t1, t2 of a quadratic time equation
PickRoot(L, t1, t2, eq) ==
    LET tMax == IF t1 > t2 THEN t1 ELSE t2
        tMin == IF t1 < t2 THEN t1 ELSE t2
    IN  IF tMax > TimeEps THEN [L EXCEPT !.t = tMax, !.kt = TRUE, !.eq = addEq(L.eq, eq)]
        ELSE IF tMin >= 0 THEN [L EXCEPT !.t = tMin, !.kt = TRUE, !.eq = addEq(L.eq, eq)]
        ELSE L

RuleTQuadVf(L) ==
    IF ~L.kt /\ L.kvf /\ L.kd /\ L.ka
    THEN IF L.a # 0
         THEN LET disc == FMul(L.vf, L.vf) - FMul(2 * L.a, L.d)
              IN  IF disc >= 0
                  THEN PickRoot(L, FDiv(L.vf - FSqrt(disc), L.a),
                                FDiv(L.vf + FSqrt(disc), L.a), "d = vf*t - .5*a*t^2")
                  ELSE L
         ELSE IF L.vf # 0 THEN AcceptTime(L, FDiv(L.d, L.vf), "t = d / vf")
         ELSE L
    ELSE L

RuleTQuadV0(L) ==
    IF ~L.kt /\ L.kv0 /\ L.kd /\ L.ka
    THEN IF L.a # 0
         THEN LET disc == FMul(L.v0, L.v0) + FMul(2 * L.a, L.d)
              IN  IF disc >= 0
                  THEN PickRoot(L, FDiv(-L.v0 + FSqrt(disc), L.a),
                                FDiv(-L.v0 - FSqrt(disc), L.a), "d = v0*t + .5*a*t^2")
                  ELSE L
         ELSE IF L.v0 # 0 THEN AcceptTime(L, FDiv(L.d, L.v0), "t = d / v0")
         ELSE L
    ELSE L

\* faulty variant: the magnitude is always taken positive
RuleVfSquaredPositive(L) ==
    IF ~L.kvf /\ L.kv0 /\ L.ka /\ L.kd
    THEN LET disc == FMul(L.v0, L.v0) + FMul(2 * L.a, L.d)
             vfMag == FSqrt(disc)
         IN  IF disc >= 0
             THEN [L EXCEPT !.vf = vfMag,
                            !.kvf = TRUE, !.eq = addEq(L.eq, "vf^2 = v0^2 + 2*a*d")]
             ELSE L
    ELSE L

RuleVfSquared(L) ==
    IF ~L.kvf /\ L.kv0 /\ L.ka /\ L.kd
    THEN LET disc == FMul(L.v0, L.v0) + FMul(2 * L.a, L.d)
             vfMag == FSqrt(disc)
         IN  IF disc >= 0
             THEN [L EXCEPT !.vf = IF L.v0 # 0
                                   THEN (IF L.v0 > 0 THEN vfMag ELSE -vfMag)
                                   ELSE (IF FMul(L.a, L.d) >= 0 THEN vfMag ELSE -vfMag),
                            !.kvf = TRUE, !.eq = addEq(L.eq, "vf^2 = v0^2 + 2*a*d")]
             ELSE L
    ELSE L

RuleV0Squared(L) ==
    IF ~L.kv0 /\ L.kvf /\ L.ka /\ L.kd
    THEN LET disc == FMul(L.vf, L.vf) - FMul(2 * L.a, L.d)
             v0Mag == FSqrt(disc)
         IN  IF disc >= 0
             THEN [L EXCEPT !.v0 = IF L.vf # 0
                                   THEN (IF L.vf > 0 THEN v0Mag ELSE -v0Mag)
                                   ELSE (IF FMul(L.a, L.d) <= 0 THEN v0Mag ELSE -v0Mag),
                            !.kv0 = TRUE, !.eq = addEq(L.eq, "v0^2 = vf^2 - 2*a*d")]
             ELSE L
    ELSE L

RuleAFromSquares(L) ==
    IF ~L.ka /\ L.kv0 /\ L.kvf /\ L.kd /\ L.d # 0
    THEN [L EXCEPT !.a = FDiv(FMul(L.vf, L.vf) - FMul(L.v0, L.v0), 2 * L.d), !.ka = TRUE,
                   !.eq = addEq(L.eq, "a = (vf^2 - v0^2) / 2*d")]
    ELSE L

RuleDFromSquares(L) ==
    IF ~L.kd /\ L.kv0 /\ L.kvf /\ L.ka /\ L.a # 0
    THEN [L EXCEPT !.d = FDiv(FMul(L.vf, L.vf) - FMul(L.v0, L.v0), 2 * L.a), !.kd = TRUE,
                   !.eq = addEq(L.eq, "d = (vf^2 - v0^2) / 2*a")]
    ELSE L

\* the catalogue in source order, by the form each group of rules inverts
PositionRules(L) == Then(Then(RuleDFromPos(L), RulePfFromPos), RuleP0FromPos)

VelocityRules(L) ==
    Then(Then(Then(Then(Then(RuleTLinear(L), RuleVfZeroA), RuleV0ZeroA),
        RuleVfFromAT), RuleV0FromAT), RuleAFromVT)

DisplacementV0Rules(L) == Then(Then(RuleDFromV0(L), RuleV0FromD), RuleAFromDV0)

AverageRules(L) ==
    Then(Then(Then(RuleDAverage(L), RuleTAverage), RuleV0Average), RuleVfAverage)

DisplacementVfRules(L) == Then(Then(RuleDFromVf(L), RuleVfFromD), RuleAFromDVf)

QuadraticTimeRules(L) == Then(RuleTQuadVf(L), RuleTQuadV0)

SquareRules(L) ==
    Then(Then(Then(RuleVfSquared(L), RuleV0Squared), RuleAFromSquares), RuleDFromSquares)

\* one round of the catalogue: the body of the for loop
Round(L) ==
    Then(Then(Then(Then(Then(Then(PositionRules(L), VelocityRules),
        DisplacementV0Rules), AverageRules), DisplacementVfRules),
        QuadraticTimeRules), SquareRules)

RECURSIVE Rounds(_, _)
\* n consecutive iterations of the for loop, split in halves.  No rule clears
\* a known flag and what a rule writes is computed from known values alone, so
\* iterations that end on the frame they started from have set no flag and
\* repeat themselves: the second half is then the identity.
Rounds(L, n) ==
    IF n = 0 THEN L
    ELSE IF n = 1 THEN Round(L)
    ELSE LET Rest(R) == IF R = L THEN R ELSE Rounds(R, n - n \div 2)
         IN  Then(Rounds(L, n \div 2), Rest)

\* faulty variant: the known flags are replaced by those of the derived variables
WriteBackDerived(A, L) ==
    LET vals == [i \in Idx |-> CASE i = 0 -> L.p0 [] i = 1 -> L.pf [] i = 2 -> L.v0
                                 [] i = 3 -> L.vf [] i = 4 -> L.a [] i = 5 -> L.d
                                 [] OTHER -> L.t]
        nowKnown == [i \in Idx |-> CASE i = 0 -> L.kp0 [] i = 1 -> L.kpf [] i = 2 -> L.kv0
                                     [] i = 3 -> L.kvf [] i = 4 -> L.ka [] i = 5 -> L.kd
                                     [] OTHER -> L.kt]
    IN  [A EXCEPT !.vals = vals,
                  !.known = [i \in Idx |-> ~A.userSet[i] /\ nowKnown[i]],
                  !.eq = L.eq]

\* the arrays written back from the local frame L
WriteBack(A, L) ==
    LET vals == [i \in Idx |-> CASE i = 0 -> L.p0 [] i = 1 -> L.pf [] i = 2 -> L.v0
                                 [] i = 3 -> L.vf [] i = 4 -> L.a [] i = 5 -> L.d
                                 [] OTHER -> L.t]
        nowKnown == [i \in Idx |-> CASE i = 0 -> L.kp0 [] i = 1 -> L.kpf [] i = 2 -> L.kv0
                                     [] i = 3 -> L.kvf [] i = 4 -> L.ka [] i = 5 -> L.kd
                                     [] OTHER -> L.kt]
    IN  [A EXCEPT !.vals = vals,
                  !.known = [i \in Idx |-> IF ~A.userSet[i] /\ nowKnown[i] THEN TRUE
                                           ELSE A.known[i]],
                  !.eq = L.eq]

\* the local frame trySolve starts from
Frame(A) ==
    [p0 |-> A.vals[0], pf |-> A.vals[1], v0 |-> A.vals[2], vf |-> A.vals[3],
     a |-> A.vals[4], d |-> A.vals[5], t |-> A.vals[6],
     kp0 |-> A.known[0], kpf |-> A.known[1], kv0 |-> A.known[2], kvf |-> A.known[3],
     ka |-> A.known[4], kd |-> A.known[5], kt |-> A.known[6], eq |-> A.eq]

\* trySolve on one axis: A = [vals, known, userSet, eq], the arrays passed in
trySolve(A) ==
    LET Back(L) == WriteBack(A, L)
    IN  Then(Rounds(Frame(A), IterCap), Back)

(* ------------------------------- state -------------------------------- *)

VARIABLES
    xVals, yVals, xKnown, yKnown, xUserSet, yUserSet,
    launchSpeed, launchAngle, finalSpeed,
    speedKnown, angleKnown, finalSpeedKnown,
    speedUserSet, angleUserSet, finalSpeedUserSet,
    xEqUsed, yEqUsed,
    curRow, curCol,
    solved,     \* history: the last operation on the Variable Set ended with autoSolve
    edits,      \* history: committed edits and clears counted against the bound
    rt,         \* history: the consistent tuple entered for the round trip, or NoTuple
    pc,         \* where the program is inside autoSolve, Idle between handlers
    frame,      \* the local variables of the running trySolve, ZeroFrame outside
    inputMode, inputBuf, inputLen, hasDecimal, isNegative,
                \* the numeric entry; inputBuf holds the characters before the terminator
    running,    \* the flag of the main loop
    prev        \* the keys that were down at the last scan (prevUp .. prevDot)

dataVars == <<xVals, yVals, xKnown, yKnown, xUserSet, yUserSet,
              launchSpeed, launchAngle, finalSpeed,
              speedKnown, angleKnown, finalSpeedKnown,
              speedUserSet, angleUserSet, finalSpeedUserSet>>

uiVars == <<inputMode, inputBuf, inputLen, hasDecimal, isNegative, running, prev>>

vars == <<xVals, yVals, xKnown, yKnown, xUserSet, yUserSet,
          launchSpeed, launchAngle, finalSpeed,
          speedKnown, angleKnown, finalSpeedKnown,
          speedUserSet, angleUserSet, finalSpeedUserSet,
          xEqUsed, yEqUsed, curRow, curCol, solved, edits, rt, pc, frame,
          inputMode, inputBuf, inputLen, hasDecimal, isNegative, running, prev>>

\* the Variable Set and the provenance strings as one record
St ==
    [xVals |-> xVals, yVals |-> yVals, xKnown |-> xKnown, yKnown |-> yKnown,
     xUserSet |-> xUserSet, yUserSet |-> yUserSet,
     launchSpeed |-> launchSpeed, launchAngle |-> launchAngle, finalSpeed |-> finalSpeed,
     speedKnown |-> speedKnown, angleKnown |-> angleKnown,
     finalSpeedKnown |-> finalSpeedKnown,
     speedUserSet |-> speedUserSet, angleUserSet |-> angleUserSet,
     finalSpeedUserSet |-> finalSpeedUserSet,
     xEqUsed |-> xEqUsed, yEqUsed |-> yEqUsed]

Put(S) ==
    /\ xVals' = S.xVals /\ yVals' = S.yVals
    /\ xKnown' = S.xKnown /\ yKnown' = S.yKnown
    /\ xUserSet' = S.xUserSet /\ yUserSet' = S.yUserSet
    /\ launchSpeed' = S.launchSpeed /\ launchAngle' = S.launchAngle
    /\ finalSpeed' = S.finalSpeed
    /\ speedKnown' = S.speedKnown /\ angleKnown' = S.angleKnown
    /\ finalSpeedKnown' = S.finalSpeedKnown
    /\ speedUserSet' = S.speedUserSet /\ angleUserSet' = S.angleUserSet
    /\ finalSpeedUserSet' = S.finalSpeedUserSet
    /\ xEqUsed' = S.xEqUsed /\ yEqUsed' = S.yEqUsed

(* ------------------------------ initData ------------------------------ *)

\* initData leaves the provenance strings alone
initData(S) ==
    [S EXCEPT
       !.xVals = [i \in Idx |-> 0],
       !.yVals = [i \in Idx |-> IF i = 4 THEN -GRAVITY ELSE 0],
       !.xKnown = [i \in Idx |-> i \in {0, 4}],
       !.yKnown = [i \in Idx |-> i = 4],
       !.xUserSet = [i \in Idx |-> i \in {0, 4}],
       !.yUserSet = [i \in Idx |-> i = 4],
       !.launchSpeed = 0, !.launchAngle = 0, !.finalSpeed = 0,
       !.speedKnown = FALSE, !.angleKnown = FALSE, !.finalSpeedKnown = FALSE,
       !.speedUserSet = FALSE, !.angleUserSet = FALSE, !.finalSpeedUserSet = FALSE]

\* the globals as the static initialisers leave them
Globals ==
    [xVals |-> [i \in Idx |-> 0], yVals |-> [i \in Idx |-> 0],
     xKnown |-> [i \in Idx |-> FALSE], yKnown |-> [i \in Idx |-> FALSE],
     xUserSet |-> [i \in Idx |-> FALSE], yUserSet |-> [i \in Idx |-> FALSE],
     launchSpeed |-> 0, launchAngle |-> 0, finalSpeed |-> 0,
     speedKnown |-> FALSE, angleKnown |-> FALSE, finalSpeedKnown |-> FALSE,
     speedUserSet |-> FALSE, angleUserSet |-> FALSE, finalSpeedUserSet |-> FALSE,
     xEqUsed |-> <<>>, yEqUsed |-> <<>>]

(* ------------------------------ autoSolve ----------------------------- *)

ClearProvenance(S) == [S EXCEPT !.xEqUsed = <<>>, !.yEqUsed = <<>>]

\* faulty variant: every known flag is cleared, user-set or not
ResetDerivedAll(S) ==
    [S EXCEPT
       !.xKnown = [i \in Idx |-> FALSE],
       !.yKnown = [i \in Idx |-> FALSE],
       !.speedKnown = FALSE, !.angleKnown = FALSE, !.finalSpeedKnown = FALSE]

\* faulty variant: derived flags survive into the next solve
ResetDerivedNone(S) == S

\* faulty variant: the derived flags of the Y axis survive into the next solve
ResetDerivedXOnly(S) ==
    [S EXCEPT
       !.xKnown = [i \in Idx |-> IF ~S.xUserSet[i] THEN FALSE ELSE S.xKnown[i]],
       !.speedKnown = IF ~S.speedUserSet THEN FALSE ELSE S.speedKnown,
       !.angleKnown = IF ~S.angleUserSet THEN FALSE ELSE S.angleKnown,
       !.finalSpeedKnown = IF ~S.finalSpeedUserSet THEN FALSE ELSE S.finalSpeedKnown]

ResetDerived(S) ==
    [S EXCEPT
       !.xKnown = [i \in Idx |-> IF ~S.xUserSet[i] THEN FALSE ELSE S.xKnown[i]],
       !.yKnown = [i \in Idx |-> IF ~S.yUserSet[i] THEN FALSE ELSE S.yKnown[i]],
       !.speedKnown = IF ~S.speedUserSet THEN FALSE ELSE S.speedKnown,
       !.angleKnown = IF ~S.angleUserSet THEN FALSE ELSE S.angleKnown,
       !.finalSpeedKnown = IF ~S.finalSpeedUserSet THEN FALSE ELSE S.finalSpeedKnown]

\* faulty variant: sine and cosine exchanged
SeedLaunchSwapped(S) ==
    IF S.speedUserSet /\ S.angleUserSet
    THEN [S EXCEPT !.xVals[2] = FMul(S.launchSpeed, SinDeg(S.launchAngle)),
                   !.yVals[2] = FMul(S.launchSpeed, CosDeg(S.launchAngle)),
                   !.xKnown[2] = TRUE, !.yKnown[2] = TRUE]
    ELSE S

SeedLaunch(S) ==
    IF S.speedUserSet /\ S.angleUserSet
    THEN [S EXCEPT !.xVals[2] = FMul(S.launchSpeed, CosDeg(S.launchAngle)),
                   !.yVals[2] = FMul(S.launchSpeed, SinDeg(S.launchAngle)),
                   !.xKnown[2] = TRUE, !.yKnown[2] = TRUE]
    ELSE S

SeedFinalY(S) ==
    IF S.finalSpeedUserSet /\ S.xKnown[3] /\ ~S.yUserSet[3]
    THEN LET vfx == S.xVals[3]
             vfy_sq == FMul(S.finalSpeed, S.finalSpeed) - FMul(vfx, vfx)
         IN  IF vfy_sq >= 0
             THEN [S EXCEPT !.yVals[3] = -FSqrt(vfy_sq), !.yKnown[3] = TRUE]
             ELSE S
    ELSE S

SeedFinalX(S) ==
    IF S.finalSpeedUserSet /\ S.yKnown[3] /\ ~S.xUserSet[3]
    THEN LET vfy == S.yVals[3]
             vfx_sq == FMul(S.finalSpeed, S.finalSpeed) - FMul(vfy, vfy)
         IN  IF vfx_sq >= 0
             THEN [S EXCEPT !.xVals[3] = FSqrt(vfx_sq), !.xKnown[3] = TRUE]
             ELSE S
    ELSE S

SeedTime(S) ==
    IF S.xUserSet[6] /\ ~S.yUserSet[6]
    THEN [S EXCEPT !.yVals[6] = S.xVals[6], !.yKnown[6] = TRUE]
    ELSE IF S.yUserSet[6] /\ ~S.xUserSet[6]
    THEN [S EXCEPT !.xVals[6] = S.yVals[6], !.xKnown[6] = TRUE]
    ELSE S

\* autoSolve up to the pass loop: provenance cleared, derived flags reset, seeds
Seeds(S) ==
    Then(Then(Then(Then(Then(
        ClearProvenance(S),
        ResetDerived), SeedLaunch), SeedFinalY), SeedFinalX), SeedTime)

AxisX(S) == [vals |-> S.xVals, known |-> S.xKnown, userSet |-> S.xUserSet, eq |-> S.xEqUsed]

AxisY(S) == [vals |-> S.yVals, known |-> S.yKnown, userSet |-> S.yUserSet, eq |-> S.yEqUsed]

StoreX(S, A) == [S EXCEPT !.xVals = A.vals, !.xKnown = A.known, !.xEqUsed = A.eq]

StoreY(S, A) == [S EXCEPT !.yVals = A.vals, !.yKnown = A.known, !.yEqUsed = A.eq]

\* trySolve(xVals, xKnown, xUserSet, xEqUsed)
SolveX(S) ==
    LET Store(A) == StoreX(S, A)
    IN  Then(trySolve(AxisX(S)), Store)

\* trySolve(yVals, yKnown, yUserSet, yEqUsed)
SolveY(S) ==
    LET Store(A) == StoreY(S, A)
    IN  Then(trySolve(AxisY(S)), Store)

\* faulty variant: a time derived on X is not copied to Y
CopyTimeToYSkipped(S) == S

CopyTimeToY(S) ==
    IF S.xKnown[6] /\ ~S.yKnown[6]
    THEN [S EXCEPT !.yVals[6] = S.xVals[6], !.yKnown[6] = TRUE]
    ELSE S

CopyTimeToX(S) ==
    IF S.yKnown[6] /\ ~S.xKnown[6]
    THEN [S EXCEPT !.xVals[6] = S.yVals[6], !.xKnown[6] = TRUE]
    ELSE S

\* one outer pass: the body of the pass loop
Pass(S) == Then(Then(Then(SolveX(S), CopyTimeToY), SolveY), CopyTimeToX)

RECURSIVE Passes(_, _)
\* the state after the first pass passes of the loop
Passes(S, pass) == IF pass = 0 THEN S ELSE Then(Passes(S, pass - 1), Pass)

\* faulty variant: the loop body runs once
PassLoopOnce(S) == Passes(S, 1)

PassLoop(S) == Passes(S, PassCount)

\* faulty variant: one known component is enough
BackDeriveEither(S) ==
    LET both0 == S.xKnown[2] \/ S.yKnown[2]
        both3 == S.xKnown[3] \/ S.yKnown[3]
        mag0 == FSqrt(FMul(S.xVals[2], S.xVals[2]) + FMul(S.yVals[2], S.yVals[2]))
        mag3 == FSqrt(FMul(S.xVals[3], S.xVals[3]) + FMul(S.yVals[3], S.yVals[3]))
    IN  [S EXCEPT
           !.launchSpeed = IF ~S.speedKnown /\ both0 THEN mag0 ELSE S.launchSpeed,
           !.speedKnown = IF ~S.speedKnown /\ both0 THEN TRUE ELSE S.speedKnown,
           !.launchAngle = IF ~S.angleKnown /\ both0
                           THEN Atan2Deg(S.yVals[2], S.xVals[2]) ELSE S.launchAngle,
           !.angleKnown = IF ~S.angleKnown /\ both0 THEN TRUE ELSE S.angleKnown,
           !.finalSpeed = IF ~S.finalSpeedKnown /\ both3 THEN mag3 ELSE S.finalSpeed,
           !.finalSpeedKnown = IF ~S.finalSpeedKnown /\ both3 THEN TRUE
                               ELSE S.finalSpeedKnown]

BackDerive(S) ==
    LET both0 == S.xKnown[2] /\ S.yKnown[2]
        both3 == S.xKnown[3] /\ S.yKnown[3]
        mag0 == FSqrt(FMul(S.xVals[2], S.xVals[2]) + FMul(S.yVals[2], S.yVals[2]))
        mag3 == FSqrt(FMul(S.xVals[3], S.xVals[3]) + FMul(S.yVals[3], S.yVals[3]))
    IN  [S EXCEPT
           !.launchSpeed = IF ~S.speedKnown /\ both0 THEN mag0 ELSE S.launchSpeed,
           !.speedKnown = IF ~S.speedKnown /\ both0 THEN TRUE ELSE S.speedKnown,
           !.launchAngle = IF ~S.angleKnown /\ both0
                           THEN Atan2Deg(S.yVals[2], S.xVals[2]) ELSE S.launchAngle,
           !.angleKnown = IF ~S.angleKnown /\ both0 THEN TRUE ELSE S.angleKnown,
           !.finalSpeed = IF ~S.finalSpeedKnown /\ both3 THEN mag3 ELSE S.finalSpeed,
           !.finalSpeedKnown = IF ~S.finalSpeedKnown /\ both3 THEN TRUE
                               ELSE S.finalSpeedKnown]

autoSolve(S) == Then(Then(Seeds(S), PassLoop), BackDerive)

(* --------------------------- numeric entry ---------------------------- *)
(* A typed entry is [neg, buf]: isNegative and the characters of inputBuf. *)

DigitVal(c) ==
    CASE c = "0" -> 0 [] c = "1" -> 1 [] c = "2" -> 2 [] c = "3" -> 3 [] c = "4" -> 4
      [] c = "5" -> 5 [] c = "6" -> 6 [] c = "7" -> 7 [] c = "8" -> 8 [] OTHER -> 9

RECURSIVE DigitsVal(_, _)
DigitsVal(ds, acc) ==
    IF ds = <<>> THEN acc ELSE DigitsVal(Tail(ds), 10 * acc + DigitVal(Head(ds)))

DotPos(buf) ==
    IF \E i \in 1 .. Len(buf) : buf[i] = "."
    THEN CHOOSE i \in 1 .. Len(buf) : buf[i] = "." /\ \A j \in 1 .. (i - 1) : buf[j] # "."
    ELSE Len(buf) + 1

\* os_StrToReal followed by os_RealToFloat: the decimal string as a fixed-point value
StrToReal(neg, buf) ==
    LET dot == DotPos(buf)
        whole == DigitsVal(SubSeq(buf, 1, dot - 1), 0)
        frac == SubSeq(buf, dot + 1, Len(buf))
        digit(i) == IF i <= Len(frac) THEN DigitVal(frac[i]) ELSE 0
        milli == 100 * digit(1) + 10 * digit(2) + digit(3) + (IF digit(4) >= 5 THEN 1 ELSE 0)
        mag == whole * Scale + milli
    IN  IF neg THEN -mag ELSE mag

Committed(in) == Len(in.buf) > 0 \/ in.neg

(* --------------------- finishInput, clearCell, resetAll --------------- *)

SetCell(S, row, col, val) ==
    IF row < ROWS
    THEN IF col = 0
         THEN [S EXCEPT !.xVals[row] = val, !.xKnown[row] = TRUE, !.xUserSet[row] = TRUE]
         ELSE [S EXCEPT !.yVals[row] = val, !.yKnown[row] = TRUE, !.yUserSet[row] = TRUE]
    ELSE IF row = ROWS
    THEN [S EXCEPT !.launchSpeed = val, !.speedKnown = TRUE, !.speedUserSet = TRUE]
    ELSE IF row = ROWS + 1
    THEN [S EXCEPT !.launchAngle = val, !.angleKnown = TRUE, !.angleUserSet = TRUE]
    ELSE [S EXCEPT !.finalSpeed = val, !.finalSpeedKnown = TRUE, !.finalSpeedUserSet = TRUE]

finishInput(S, row, col, in) ==
    IF Committed(in) THEN Then(SetCell(S, row, col, StrToReal(in.neg, in.buf)), autoSolve)
    ELSE S

\* faulty variant: the userSet flag of the cleared cell stays
UnsetCellKeepsUserSet(S, row, col) ==
    IF row < ROWS
    THEN IF col = 0
         THEN [S EXCEPT !.xKnown[row] = FALSE, !.xVals[row] = 0]
         ELSE [S EXCEPT !.yKnown[row] = FALSE, !.yVals[row] = 0]
    ELSE IF row = ROWS
    THEN [S EXCEPT !.speedKnown = FALSE, !.launchSpeed = 0]
    ELSE IF row = ROWS + 1
    THEN [S EXCEPT !.angleKnown = FALSE, !.launchAngle = 0]
    ELSE [S EXCEPT !.finalSpeedKnown = FALSE, !.finalSpeed = 0]

UnsetCell(S, row, col) ==
    IF row < ROWS
    THEN IF col = 0
         THEN [S EXCEPT !.xKnown[row] = FALSE, !.xUserSet[row] = FALSE, !.xVals[row] = 0]
         ELSE [S EXCEPT !.yKnown[row] = FALSE, !.yUserSet[row] = FALSE, !.yVals[row] = 0]
    ELSE IF row = ROWS
    THEN [S EXCEPT !.speedKnown = FALSE, !.speedUserSet = FALSE, !.launchSpeed = 0]
    ELSE IF row = ROWS + 1
    THEN [S EXCEPT !.angleKnown = FALSE, !.angleUserSet = FALSE, !.launchAngle = 0]
    ELSE [S EXCEPT !.finalSpeedKnown = FALSE, !.finalSpeedUserSet = FALSE, !.finalSpeed = 0]

clearCell(S, row, col) == Then(UnsetCell(S, row, col), autoSolve)

resetAll(S) == initData(S)

(* ------------------------------- cursor ------------------------------- *)

UpRow(row) ==
    IF row >= ROWS THEN (IF row = ROWS THEN ROWS + 2 ELSE row - 1)
    ELSE (row - 1 + ROWS) % ROWS

DownRow(row) ==
    IF row >= ROWS THEN (IF row = ROWS + 2 THEN ROWS ELSE row + 1)
    ELSE (row + 1) % ROWS

\* <<curRow, curCol>> after the Left key
LeftCell(row, col) ==
    IF row >= ROWS THEN <<row - ROWS, 1>>
    ELSE IF row < 3 /\ col = 0 THEN <<ROWS + row, col>>
    ELSE <<row, (col - 1 + COLS) % COLS>>

\* <<curRow, curCol>> after the Right key
RightCell(row, col) ==
    IF row < 3 /\ col = 1 THEN <<ROWS + row, col>>
    ELSE IF row >= ROWS THEN <<row - ROWS, 0>>
    ELSE <<row, (col + 1) % COLS>>

(* ------------------------------ plotting ------------------------------ *)
(* Both plots sample x0 + v0*t + a*t*t/2 on each axis, x0 and y0 replaced by  *)
(* 0 when the initial position is unknown; they read the two accelerations    *)
(* without looking at their known flags.                                      *)

\* the mini plot of drawTable draws its trajectory
MiniPlot(S) == S.xKnown[2] /\ S.yKnown[2] /\ S.xKnown[6] /\ S.xVals[6] > 0

\* drawGraph gets past its early return and draws its trajectory
drawGraph(S) == S.xKnown[2] /\ S.yKnown[2] /\ S.xKnown[6]

(* ------------------------------- inputs ------------------------------- *)

Typed(neg, buf) == [neg |-> neg, buf |-> buf]

\* entries typed in the general specification: 2, -1 and an empty buffer
GenInputs ==
    [row \in 0 .. (ROWS + 2), col \in 0 .. (COLS - 1) |->
        {Typed(FALSE, <<"2">>), Typed(TRUE, <<"1">>), Typed(FALSE, <<>>)}]

\* entries of the documented scenarios A, B and C, each in its own cell
ScenInputs ==
    [row \in 0 .. (ROWS + 2), col \in 0 .. (COLS - 1) |->
        CASE row = 2 /\ col = 0 -> {Typed(FALSE, <<"5">>)}
          [] row = 4 /\ col = 0 -> {Typed(FALSE, <<"0">>)}
          [] row = 6 /\ col = 0 -> {Typed(FALSE, <<"3">>)}
          [] row = 1 /\ col = 1 -> {Typed(FALSE, <<"0">>)}
          [] row = ROWS -> {Typed(FALSE, <<"2", "0">>)}
          [] row = ROWS + 1 -> {Typed(FALSE, <<"3", "0">>)}
          [] OTHER -> {}]

\* entries typed while autoSolve is taken step by step: the scenario entry of
\* the cell if it has one, 2 otherwise
StepInputs ==
    [row \in 0 .. (ROWS + 2), col \in 0 .. (COLS - 1) |->
        IF ScenInputs[row, col] # {} THEN ScenInputs[row, col]
        ELSE {Typed(FALSE, <<"2">>)}]

\* the entry that types a value v (a multiple of 0.5 below 100 in magnitude)
ToTyped(v) ==
    LET w == Abs(v) \div Scale
        ch(n) == CASE n = 0 -> "0" [] n = 1 -> "1" [] n = 2 -> "2" [] n = 3 -> "3"
                   [] n = 4 -> "4" [] n = 5 -> "5" [] n = 6 -> "6" [] n = 7 -> "7"
                   [] n = 8 -> "8" [] OTHER -> "9"
        whole == IF w >= 10 THEN <<ch(w \div 10), ch(w % 10)>> ELSE <<ch(w)>>
        frac == IF Abs(v) % Scale = 0 THEN <<>> ELSE <<".", "5">>
    IN  Typed(v < 0, whole \o frac)

\* the value of rt outside the round-trip specification
NoTuple == [col |-> -1, vals |-> [i \in Idx |-> 0]]

\* a consistent axis tuple: d = v0*t + a*t*t/2, vf = v0 + a*t, pf = p0 + d
TupleOf(p0, v0, a, t) ==
    LET d == FMul(v0, t) + FMul(FMul(Half, a), FMul(t, t))
    IN  [i \in Idx |-> CASE i = 0 -> p0 [] i = 1 -> p0 + d [] i = 2 -> v0
                         [] i = 3 -> v0 + FMul(a, t) [] i = 4 -> a [] i = 5 -> d
                         [] OTHER -> t]

\* tuples typed in the round-trip specification
Tuples ==
    {TupleOf(Scale, v0 * Scale, a * Scale, t * Scale) :
        v0 \in {-3, 0, 2}, a \in {-2, 0, 2}, t \in 0 .. MaxT}

\* what is typed on the other axis and the coupling scalars beforehand
Preludes == {"none", "time", "speed"}

EnterPrelude(S, col, other) ==
    CASE other = "time" ->
           LET Pf(R) == finishInput(R, 1, 1 - col, ToTyped(Scale))
           IN  Then(finishInput(S, 2, 1 - col, ToTyped(Scale)), Pf)
      [] other = "speed" ->
           LET Vf(R) == finishInput(R, 3, 1 - col, ToTyped(3 * Scale))
           IN  Then(finishInput(S, ROWS + 2, 0, ToTyped(5 * Scale)), Vf)
      [] OTHER -> S

RECURSIVE EnterRows(_, _, _, _)
\* rows 0 .. n - 1 of column col typed with the values of the tuple
EnterRows(S, col, vals, n) ==
    IF n = 0 THEN S
    ELSE LET Row(R) == finishInput(R, n - 1, col, ToTyped(vals[n - 1]))
         IN  Then(EnterRows(S, col, vals, n - 1), Row)

\* pc between two handlers of the main loop
Idle == [at |-> "idle", axis |-> "X", pass |-> 0, iter |-> 0, op |-> "none"]

\* pc when the pass loop of autoSolve is entered from handler op
LoopEntry(op) == [at |-> "call", axis |-> "X", pass |-> 0, iter |-> 0, op |-> op]

\* frame while no trySolve is running
ZeroFrame ==
    [p0 |-> 0, pf |-> 0, v0 |-> 0, vf |-> 0, a |-> 0, d |-> 0, t |-> 0,
     kp0 |-> FALSE, kpf |-> FALSE, kv0 |-> FALSE, kvf |-> FALSE,
     ka |-> FALSE, kd |-> FALSE, kt |-> FALSE, eq |-> <<>>]

(* ------------------------------- actions ------------------------------ *)
(* Each handler computes its result once (\E S \in {...}) and stores it.    *)

KeyUp ==
    /\ pc.at = "idle"
    /\ curRow' = UpRow(curRow)
    /\ UNCHANGED <<dataVars, xEqUsed, yEqUsed, curCol, solved, edits, rt, pc, frame, uiVars>>

KeyDown ==
    /\ pc.at = "idle"
    /\ curRow' = DownRow(curRow)
    /\ UNCHANGED <<dataVars, xEqUsed, yEqUsed, curCol, solved, edits, rt, pc, frame, uiVars>>

KeyLeft ==
    /\ pc.at = "idle"
    /\ curRow' = LeftCell(curRow, curCol)[1]
    /\ curCol' = LeftCell(curRow, curCol)[2]
    /\ UNCHANGED <<dataVars, xEqUsed, yEqUsed, solved, edits, rt, pc, frame, uiVars>>

KeyRight ==
    /\ pc.at = "idle"
    /\ curRow' = RightCell(curRow, curCol)[1]
    /\ curCol' = RightCell(curRow, curCol)[2]
    /\ UNCHANGED <<dataVars, xEqUsed, yEqUsed, solved, edits, rt, pc, frame, uiVars>>

\* Enter in edit mode on a typed entry; cap and step bound the counted edits
FinishInput(Inputs, cap, step) ==
    /\ \E in \in Inputs[curRow, curCol] :
          /\ Committed(in) => edits + step <= cap
          /\ \E S \in {finishInput(St, curRow, curCol, in)} : Put(S)
          /\ solved' = IF Committed(in) THEN TRUE ELSE solved
          /\ edits' = IF Committed(in) THEN edits + step ELSE edits
    /\ UNCHANGED <<curRow, curCol, rt, pc, frame, uiVars>>

\* Del in navigation mode
ClearCell(cap, step) ==
    /\ edits + step <= cap
    /\ \E S \in {clearCell(St, curRow, curCol)} : Put(S)
    /\ solved' = TRUE
    /\ edits' = edits + step
    /\ UNCHANGED <<curRow, curCol, rt, pc, frame, uiVars>>

\* Mode in navigation mode
ResetAll ==
    /\ \E S \in {resetAll(St)} : Put(S)
    /\ solved' = FALSE
    /\ UNCHANGED <<curRow, curCol, edits, rt, pc, frame, uiVars>>

\* autoSolve called on its own: a further full solve with no edit in between
\* (the program calls it at the end of finishInput and of clearCell)
AutoSolve ==
    /\ \E S \in {autoSolve(St)} : Put(S)
    /\ solved' = TRUE
    /\ UNCHANGED <<curRow, curCol, edits, rt, pc, frame, uiVars>>

(* ------------------------ autoSolve step by step ---------------------- *)
(* The same handlers with autoSolve unfolded: the seeds run with the edit,   *)
(* then every trySolve call, catalogue round, write-back and time copy of    *)
(* the pass loop is a step, and the back-derivation ends the solve.          *)

\* finishInput on a committed entry, up to the pass loop
BeginFinishInput(Inputs, cap) ==
    /\ pc.at = "idle"
    /\ edits + 1 <= cap
    /\ \E in \in Inputs[curRow, curCol] :
          /\ Committed(in)
          /\ \E S \in {Seeds(SetCell(St, curRow, curCol, StrToReal(in.neg, in.buf)))} : Put(S)
    /\ pc' = LoopEntry("finishInput")
    /\ solved' = FALSE
    /\ edits' = edits + 1
    /\ UNCHANGED <<curRow, curCol, rt, frame, uiVars>>

\* clearCell, up to the pass loop
BeginClearCell(cap) ==
    /\ pc.at = "idle"
    /\ edits + 1 <= cap
    /\ \E S \in {Seeds(UnsetCell(St, curRow, curCol))} : Put(S)
    /\ pc' = LoopEntry("clearCell")
    /\ solved' = FALSE
    /\ edits' = edits + 1
    /\ UNCHANGED <<curRow, curCol, rt, frame, uiVars>>

\* the arrays of the axis the pass loop is working on
Axis(S, axis) == IF axis = "X" THEN AxisX(S) ELSE AxisY(S)

\* trySolve is entered: the arrays are copied into the locals
TrySolveCall ==
    /\ pc.at = "call"
    /\ frame' = Frame(Axis(St, pc.axis))
    /\ pc' = [pc EXCEPT !.at = "round", !.iter = 0]
    /\ UNCHANGED <<dataVars, xEqUsed, yEqUsed, curRow, curCol, solved, edits, rt, uiVars>>

\* one iteration of the for loop of trySolve
TrySolveRound ==
    /\ pc.at = "round" /\ pc.iter < IterCap
    /\ frame' = Round(frame)
    /\ pc' = [pc EXCEPT !.iter = pc.iter + 1]
    /\ UNCHANGED <<dataVars, xEqUsed, yEqUsed, curRow, curCol, solved, edits, rt, uiVars>>

\* the loop of trySolve is over: the locals are written back
TrySolveReturn ==
    /\ pc.at = "round" /\ pc.iter = IterCap
    /\ \E A \in {WriteBack(Axis(St, pc.axis), frame)} :
          IF pc.axis = "X" THEN Put(StoreX(St, A)) ELSE Put(StoreY(St, A))
    /\ frame' = ZeroFrame
    /\ pc' = [pc EXCEPT !.at = "copy", !.iter = 0]
    /\ UNCHANGED <<curRow, curCol, solved, edits, rt, uiVars>>

\* faulty variant: the pass counter is not advanced
AfterPassStuck(p) == [p EXCEPT !.at = "call", !.axis = "X"]

\* pc after the last statement of the loop body
AfterPass(p) ==
    IF p.pass + 1 < PassCount
    THEN [p EXCEPT !.at = "call", !.axis = "X", !.pass = p.pass + 1]
    ELSE [p EXCEPT !.at = "back", !.axis = "X", !.pass = p.pass + 1]

\* the time copy that follows a trySolve call
CopyTime ==
    /\ pc.at = "copy"
    /\ IF pc.axis = "X"
       THEN /\ \E S \in {CopyTimeToY(St)} : Put(S)
            /\ pc' = [pc EXCEPT !.at = "call", !.axis = "Y"]
       ELSE /\ \E S \in {CopyTimeToX(St)} : Put(S)
            /\ pc' = AfterPass(pc)
    /\ UNCHANGED <<curRow, curCol, solved, edits, rt, frame, uiVars>>

\* the scalars are back-derived and autoSolve returns to the handler
BackDeriveReturn ==
    /\ pc.at = "back"
    /\ \E S \in {BackDerive(St)} : Put(S)
    /\ pc' = Idle
    /\ solved' = TRUE
    /\ UNCHANGED <<curRow, curCol, edits, rt, frame, uiVars>>

\* a step inside autoSolve
SolveStep ==
    \/ TrySolveCall
    \/ TrySolveRound
    \/ TrySolveReturn
    \/ CopyTime
    \/ BackDeriveReturn

(* ------------------------ the catalogue rule by rule ------------------- *)
(* Each rule of the catalogue as a function of the locals of trySolve,       *)
(* applied to frames drawn from a bounded set and to the frames that result. *)

\* the rules of the catalogue, in source order
RuleNames ==
    {"RuleDFromPos", "RulePfFromPos", "RuleP0FromPos", "RuleTLinear",
     "RuleVfZeroA", "RuleV0ZeroA", "RuleVfFromAT", "RuleV0FromAT",
     "RuleAFromVT", "RuleDFromV0", "RuleV0FromD", "RuleAFromDV0",
     "RuleDAverage", "RuleTAverage", "RuleV0Average", "RuleVfAverage",
     "RuleDFromVf", "RuleVfFromD", "RuleAFromDVf", "RuleTQuadVf",
     "RuleTQuadV0", "RuleVfSquared", "RuleV0Squared", "RuleAFromSquares",
     "RuleDFromSquares"}

RuleAt(name, L) ==
    CASE name = "RuleDFromPos" -> RuleDFromPos(L)
      [] name = "RulePfFromPos" -> RulePfFromPos(L)
      [] name = "RuleP0FromPos" -> RuleP0FromPos(L)
      [] name = "RuleTLinear" -> RuleTLinear(L)
      [] name = "RuleVfZeroA" -> RuleVfZeroA(L)
      [] name = "RuleV0ZeroA" -> RuleV0ZeroA(L)
      [] name = "RuleVfFromAT" -> RuleVfFromAT(L)
      [] name = "RuleV0FromAT" -> RuleV0FromAT(L)
      [] name = "RuleAFromVT" -> RuleAFromVT(L)
      [] name = "RuleDFromV0" -> RuleDFromV0(L)
      [] name = "RuleV0FromD" -> RuleV0FromD(L)
      [] name = "RuleAFromDV0" -> RuleAFromDV0(L)
      [] name = "RuleDAverage" -> RuleDAverage(L)
      [] name = "RuleTAverage" -> RuleTAverage(L)
      [] name = "RuleV0Average" -> RuleV0Average(L)
      [] name = "RuleVfAverage" -> RuleVfAverage(L)
      [] name = "RuleDFromVf" -> RuleDFromVf(L)
      [] name = "RuleVfFromD" -> RuleVfFromD(L)
      [] name = "RuleAFromDVf" -> RuleAFromDVf(L)
      [] name = "RuleTQuadVf" -> RuleTQuadVf(L)
      [] name = "RuleTQuadV0" -> RuleTQuadV0(L)
      [] name = "RuleVfSquared" -> RuleVfSquared(L)
      [] name = "RuleV0Squared" -> RuleV0Squared(L)
      [] name = "RuleAFromSquares" -> RuleAFromSquares(L)
      [] OTHER -> RuleDFromSquares(L)

\* a value that is unknown (0) or known and one of vals
Cells(vals) == {[k |-> FALSE, v |-> 0]} \cup {[k |-> TRUE, v |-> v] : v \in vals}

\* the locals with the given cells
FrameOf(p0, pf, v0, vf, a, d, t) ==
    [p0 |-> p0.v, pf |-> pf.v, v0 |-> v0.v, vf |-> vf.v, a |-> a.v, d |-> d.v, t |-> t.v,
     kp0 |-> p0.k, kpf |-> pf.k, kv0 |-> v0.k, kvf |-> vf.k, ka |-> a.k, kd |-> d.k,
     kt |-> t.k, eq |-> <<>>]

\* the frames the rules are applied to: velocities, acceleration, displacement
\* and time unknown or -MaxMag, 0 or MaxMag with the positions unknown, and
\* the positions unknown or 0 and MaxMag with the displacement alone
Frames ==
    LET none == [k |-> FALSE, v |-> 0]
        vals == {-MaxMag * Scale, 0, MaxMag * Scale}
    IN  {FrameOf(none, none, v0, vf, a, d, t) :
            v0 \in Cells(vals), vf \in Cells(vals), a \in Cells(vals),
            d \in Cells(vals), t \in Cells(vals)}
        \cup
        {FrameOf(p0, pf, none, none, none, d, none) :
            p0 \in Cells({0}), pf \in Cells({MaxMag * Scale}), d \in Cells(vals)}

\* one rule of the for loop body is applied to the locals
ApplyRule(name) ==
    /\ pc.at = "rule"
    /\ frame' = RuleAt(name, frame)
    /\ pc' = [pc EXCEPT !.op = name]
    /\ UNCHANGED <<dataVars, xEqUsed, yEqUsed, curRow, curCol, solved, edits, rt, uiVars>>

(* ------------------------------ main loop ----------------------------- *)
(* One pass through the loop of main(). `pressed` is the set of keys that    *)
(* are down at this scan; a handler runs for a key that is down now and was  *)
(* not down at the last scan. The handlers act, in the order of the source,  *)
(* on a record M of the globals; M.new holds the newly pressed keys. A digit *)
(* key is named by its character.                                            *)

Digit == <<"0", "1", "2", "3", "4", "5", "6", "7", "8", "9">>

Mach(pressed) ==
    [data |-> St, curRow |-> curRow, curCol |-> curCol,
     inputMode |-> inputMode, inputBuf |-> inputBuf, inputLen |-> inputLen,
     hasDecimal |-> hasDecimal, isNegative |-> isNegative, running |-> running,
     solved |-> solved, edits |-> edits, new |-> pressed \ prev]

PutMach(M) ==
    /\ Put(M.data)
    /\ curRow' = M.curRow /\ curCol' = M.curCol
    /\ inputMode' = M.inputMode /\ inputBuf' = M.inputBuf /\ inputLen' = M.inputLen
    /\ hasDecimal' = M.hasDecimal /\ isNegative' = M.isNegative
    /\ running' = M.running
    /\ solved' = M.solved /\ edits' = M.edits

\* inputBuf[len] = c; inputBuf[len + 1] = '\0': the characters before the
\* terminator afterwards (a write beyond the terminator leaves them as they are)
Store(buf, len, c) ==
    IF len <= Len(buf) THEN Append(SubSeq(buf, 1, len), c) ELSE buf

\* inputBuf[i], the terminator read as the empty string
CharAt(buf, i) == IF i < Len(buf) THEN buf[i + 1] ELSE ""

\* inputBuf[i] = '\0'
Terminate(buf, i) == IF i <= Len(buf) THEN SubSeq(buf, 1, i) ELSE buf

startInput(M) ==
    [M EXCEPT !.inputMode = TRUE, !.inputLen = 0, !.inputBuf = <<>>,
              !.hasDecimal = FALSE, !.isNegative = FALSE]

\* faulty variant: cancelling leaves the loop as Clear does in navigation mode
cancelInputExits(M) == [M EXCEPT !.inputMode = FALSE, !.running = FALSE]

cancelInput(M) == [M EXCEPT !.inputMode = FALSE]

NavUp(M) ==
    IF "up" \in M.new THEN [M EXCEPT !.curRow = UpRow(M.curRow)] ELSE M

NavDown(M) ==
    IF "down" \in M.new THEN [M EXCEPT !.curRow = DownRow(M.curRow)] ELSE M

\* faulty variant: the Left key wraps to the scalars from the first four rows
NavLeftFour(M) ==
    IF "left" \in M.new
    THEN IF M.curRow >= ROWS THEN [M EXCEPT !.curRow = M.curRow - ROWS, !.curCol = 1]
         ELSE IF M.curRow < 4 /\ M.curCol = 0 THEN [M EXCEPT !.curRow = ROWS + M.curRow]
         ELSE [M EXCEPT !.curCol = (M.curCol - 1 + COLS) % COLS]
    ELSE M

NavLeft(M) ==
    IF "left" \in M.new
    THEN [M EXCEPT !.curRow = LeftCell(M.curRow, M.curCol)[1],
                   !.curCol = LeftCell(M.curRow, M.curCol)[2]]
    ELSE M

NavRight(M) ==
    IF "right" \in M.new
    THEN [M EXCEPT !.curRow = RightCell(M.curRow, M.curCol)[1],
                   !.curCol = RightCell(M.curRow, M.curCol)[2]]
    ELSE M

NavEnter(M) == IF "enter" \in M.new THEN startInput(M) ELSE M

NavDel(M) ==
    IF "del" \in M.new
    THEN [M EXCEPT !.data = clearCell(M.data, M.curRow, M.curCol),
                   !.solved = TRUE, !.edits = M.edits + 1]
    ELSE M

NavMode(M) ==
    IF "mode" \in M.new THEN [M EXCEPT !.data = resetAll(M.data), !.solved = FALSE] ELSE M

\* drawGraph draws, or returns at once, and waits for the keys to be released:
\* it writes no global
NavGraph(M) == M

NavClear(M) == IF "clear" \in M.new THEN [M EXCEPT !.running = FALSE] ELSE M

\* the first newly pressed digit key starts an entry with its character
NavDigits(M) ==
    LET hit == {i \in 0 .. 9 : Digit[i + 1] \in M.new}
        first == CHOOSE i \in hit : \A j \in hit : i <= j
    IN  IF hit = {} THEN M
        ELSE [startInput(M) EXCEPT !.inputBuf = <<Digit[first + 1]>>, !.inputLen = 1]

NavNeg(M) ==
    IF "neg" \in M.new THEN [startInput(M) EXCEPT !.isNegative = TRUE] ELSE M

NavDot(M) ==
    IF "dot" \in M.new
    THEN [startInput(M) EXCEPT !.inputBuf = <<".">>, !.inputLen = 1, !.hasDecimal = TRUE]
    ELSE M

\* the branch of the loop body taken in navigation mode
Nav(M) ==
    Then(Then(Then(Then(Then(Then(Then(Then(Then(Then(Then(NavUp(M),
        NavDown), NavLeft), NavRight), NavEnter), NavDel), NavMode), NavGraph),
        NavClear), NavDigits), NavNeg), NavDot)

EditDigit(M, i) ==
    IF Digit[i + 1] \in M.new /\ M.inputLen < InputCap
    THEN [M EXCEPT !.inputBuf = Store(M.inputBuf, M.inputLen, Digit[i + 1]),
                   !.inputLen = M.inputLen + 1]
    ELSE M

RECURSIVE EditDigits(_, _)
EditDigits(M, i) ==
    IF i > 9 THEN M ELSE Then(EditDigit(M, i), LAMBDA m : EditDigits(m, i + 1))

\* faulty variant: a second decimal point is accepted
EditDotAgain(M) ==
    IF "dot" \in M.new /\ M.inputLen < InputCap
    THEN [M EXCEPT !.inputBuf = Store(M.inputBuf, M.inputLen, "."),
                   !.inputLen = M.inputLen + 1, !.hasDecimal = TRUE]
    ELSE M

EditDot(M) ==
    IF "dot" \in M.new /\ ~M.hasDecimal /\ M.inputLen < InputCap
    THEN [M EXCEPT !.inputBuf = Store(M.inputBuf, M.inputLen, "."),
                   !.inputLen = M.inputLen + 1, !.hasDecimal = TRUE]
    ELSE M

EditNeg(M) ==
    IF "neg" \in M.new THEN [M EXCEPT !.isNegative = ~M.isNegative] ELSE M

\* Del in edit mode: backspace
EditDel(M) ==
    IF "del" \in M.new /\ M.inputLen > 0
    THEN [M EXCEPT !.inputLen = M.inputLen - 1,
                   !.hasDecimal = IF CharAt(M.inputBuf, M.inputLen - 1) = "."
                                  THEN FALSE ELSE M.hasDecimal,
                   !.inputBuf = Terminate(M.inputBuf, M.inputLen - 1)]
    ELSE M

\* the keys of edit mode that act on the entry
EditKeys(M) == Then(Then(Then(EditDigits(M, 0), EditDot), EditNeg), EditDel)

\* Enter in edit mode: finishInput on the entry as the keys of this pass left it
EditEnter(M) ==
    IF "enter" \in M.new
    THEN IF M.inputLen > 0 \/ M.isNegative
         THEN [M EXCEPT !.data = finishInput(M.data, M.curRow, M.curCol,
                                             Typed(M.isNegative, M.inputBuf)),
                        !.inputMode = FALSE, !.solved = TRUE, !.edits = M.edits + 1]
         ELSE [M EXCEPT !.inputMode = FALSE]
    ELSE M

EditClear(M) == IF "clear" \in M.new THEN cancelInput(M) ELSE M

\* one pass with a key scan; cap bounds the counted edits, and an entry longer
\* than MaxDigits characters is not committed (its value leaves the fixed-point range)
MainLoop(KeySets, cap) ==
    /\ pc.at = "idle" /\ running
    /\ \E pressed \in KeySets :
          /\ \E M0 \in {Mach(pressed)} :
                IF inputMode
                THEN \E K \in {EditKeys(M0)} :
                        /\ ("enter" \in K.new /\ (K.inputLen > 0 \/ K.isNegative)) =>
                               (edits < cap /\ Len(K.inputBuf) <= MaxDigits)
                        /\ \E M \in {Then(EditEnter(K), EditClear)} : PutMach(M)
                ELSE /\ "del" \in M0.new => edits < cap
                     /\ \E M \in {Nav(M0)} : PutMach(M)
          /\ prev' = pressed
    /\ UNCHANGED <<rt, pc, frame>>

\* the inactivity timeout: no key is down (the scans before this one saw none
\* either) and the loop is left
Timeout ==
    /\ pc.at = "idle" /\ running
    /\ prev = {}
    /\ running' = FALSE
    /\ UNCHANGED <<dataVars, xEqUsed, yEqUsed, curRow, curCol, solved, edits, rt, pc, frame,
                   inputMode, inputBuf, inputLen, hasDecimal, isNegative, prev>>

\* key scans of the cursor specification: any arrows together, or one command key
CursorKeys ==
    (SUBSET {"up", "down", "left", "right"})
        \cup {{"enter"}, {"del"}, {"mode"}, {"graph"}, {"clear"}}

\* key scans of the entry specification: up to two of these keys together
EntryKeys ==
    {ks \in SUBSET {"1", "dot", "neg", "del", "enter", "clear"} : Cardinality(ks) <= 2}

(* ---------------------------- specifications -------------------------- *)

\* main() up to the loop: navigation mode, the zero-initialised entry globals,
\* running = true and every prev flag false
StartUI ==
    /\ inputMode = FALSE /\ inputBuf = <<>> /\ inputLen = 0
    /\ hasDecimal = FALSE /\ isNegative = FALSE
    /\ running = TRUE
    /\ prev = {}

Start(S) ==
    /\ xVals = S.xVals /\ yVals = S.yVals
    /\ xKnown = S.xKnown /\ yKnown = S.yKnown
    /\ xUserSet = S.xUserSet /\ yUserSet = S.yUserSet
    /\ launchSpeed = S.launchSpeed /\ launchAngle = S.launchAngle
    /\ finalSpeed = S.finalSpeed
    /\ speedKnown = S.speedKnown /\ angleKnown = S.angleKnown
    /\ finalSpeedKnown = S.finalSpeedKnown
    /\ speedUserSet = S.speedUserSet /\ angleUserSet = S.angleUserSet
    /\ finalSpeedUserSet = S.finalSpeedUserSet
    /\ xEqUsed = S.xEqUsed /\ yEqUsed = S.yEqUsed

\* main() up to the loop: initData on the zero-initialised globals
Init ==
    /\ Start(initData(Globals))
    /\ curRow = 0 /\ curCol = 0
    /\ solved = FALSE
    /\ edits = 0
    /\ rt = NoTuple
    /\ pc = Idle
    /\ frame = ZeroFrame
    /\ StartUI

Next ==
    \/ KeyUp
    \/ KeyDown
    \/ KeyLeft
    \/ KeyRight
    \/ FinishInput(GenInputs, MaxEdits, 1)
    \/ ClearCell(MaxEdits, 1)
    \/ ResetAll
    \/ AutoSolve

Spec == Init /\ [][Next]_vars

NextScen ==
    \/ KeyUp
    \/ KeyDown
    \/ KeyLeft
    \/ KeyRight
    \/ FinishInput(ScenInputs, MaxScenEdits, 1)
    \/ ResetAll
    \/ AutoSolve

SpecScen == Init /\ [][NextScen]_vars

\* round trip: the program after the prelude and a whole tuple have been typed
\* on one axis, the cursor back at the top
InitRT ==
    /\ \E col \in 0 .. (COLS - 1), vals \in Tuples, other \in Preludes :
          /\ rt = [col |-> col, vals |-> vals]
          /\ \E S \in {EnterRows(EnterPrelude(initData(Globals), col, other),
                                 col, vals, VAR_COUNT)} : Start(S)
    /\ curRow = 0 /\ curCol = 0
    /\ solved = TRUE
    /\ edits = 0
    /\ pc = Idle
    /\ frame = ZeroFrame
    /\ StartUI

NextRT ==
    \/ KeyUp
    \/ KeyDown
    \/ KeyLeft
    \/ KeyRight
    \/ ClearCell(MaxClears, 1)

SpecRT == InitRT /\ [][NextRT]_vars

NextSolve ==
    \/ KeyUp
    \/ KeyDown
    \/ KeyLeft
    \/ KeyRight
    \/ BeginFinishInput(StepInputs, MaxStepEdits)
    \/ BeginClearCell(MaxStepEdits)
    \/ TrySolveCall
    \/ TrySolveRound
    \/ TrySolveReturn
    \/ CopyTime
    \/ BackDeriveReturn

SpecSolve == Init /\ [][NextSolve]_vars

\* the entries of the documented scenarios and clears, autoSolve step by step
NextFair ==
    \/ KeyUp
    \/ KeyDown
    \/ KeyLeft
    \/ KeyRight
    \/ BeginFinishInput(ScenInputs, MaxFairEdits)
    \/ BeginClearCell(MaxFairEdits)
    \/ SolveStep

\* autoSolve is straight-line code called from the handler: once entered it
\* runs on until it returns
FairSolve == Init /\ [][NextFair]_vars /\ WF_vars(SolveStep)

\* trySolve inside its loop with some frame as its locals
NextCursor ==
    \/ MainLoop(CursorKeys, MaxKeyEdits)
    \/ Timeout

SpecCursor == Init /\ [][NextCursor]_vars

NextEntry ==
    \/ MainLoop(EntryKeys, MaxKeyEdits)
    \/ Timeout

SpecEntry == Init /\ [][NextEntry]_vars

InitRules ==
    /\ Start(initData(Globals))
    /\ curRow = 0 /\ curCol = 0
    /\ solved = FALSE
    /\ edits = 0
    /\ rt = NoTuple
    /\ pc = [Idle EXCEPT !.at = "rule"]
    /\ frame \in Frames
    /\ StartUI

NextRules == \E name \in RuleNames : ApplyRule(name)

SpecRules == InitRules /\ [][NextRules]_vars

(* ------------------------------- claims ------------------------------- *)

\* the user-set flags are exactly those of the rows xs on X, ys on Y and of
\* the coupling scalars named by sp, an, fs
OnlyUserSet(xs, ys, sp, an, fs) ==
    /\ xUserSet = [i \in Idx |-> i \in xs]
    /\ yUserSet = [i \in Idx |-> i \in ys]
    /\ speedUserSet = sp /\ angleUserSet = an /\ finalSpeedUserSet = fs

\* C1: a step that ends with a solve (an edit of another cell, a clear of
\* another cell, a further solve) leaves the value of every variable and scalar
\* that is user-set before and after the step as it was.
C1_UserSetImmutable ==
    [][solved' =>
         /\ \A i \in Idx :
               /\ (xUserSet[i] /\ xUserSet'[i]
                     /\ ~(curCol = 0 /\ curRow = i /\ edits' # edits))
                  => xVals'[i] = xVals[i]
               /\ (yUserSet[i] /\ yUserSet'[i]
                     /\ ~(curCol = 1 /\ curRow = i /\ edits' # edits))
                  => yVals'[i] = yVals[i]
         /\ (speedUserSet /\ speedUserSet' /\ ~(curRow = ROWS /\ edits' # edits))
            => launchSpeed' = launchSpeed
         /\ (angleUserSet /\ angleUserSet' /\ ~(curRow = ROWS + 1 /\ edits' # edits))
            => launchAngle' = launchAngle
         /\ (finalSpeedUserSet /\ finalSpeedUserSet' /\ ~(curRow = ROWS + 2 /\ edits' # edits))
            => finalSpeed' = finalSpeed]_vars

\* C2: userSet implies known for the 14 axis variables and the 3 coupling scalars.
C2_UserSetImpliesKnown ==
    /\ \A i \in Idx : (xUserSet[i] => xKnown[i]) /\ (yUserSet[i] => yKnown[i])
    /\ speedUserSet => speedKnown
    /\ angleUserSet => angleKnown
    /\ finalSpeedUserSet => finalSpeedKnown

\* C2 witness: after a solve a default has been cleared, a time typed and a
\* value derived from it
C2_Witness ==
    /\ solved /\ ~xUserSet[0] /\ xUserSet[6]
    /\ yKnown[6] /\ ~yUserSet[6]

\* C3: after a completed solve with at most one user-set time, X's time is known
\* exactly when Y's is, and the two values are then equal.
C3_SharedTime ==
    (solved /\ ~(xUserSet[6] /\ yUserSet[6])) =>
        /\ xKnown[6] <=> yKnown[6]
        /\ xKnown[6] => xVals[6] = yVals[6]
        /\ xUserSet[6] => yKnown[6]
        /\ yUserSet[6] => xKnown[6]

\* C3 witness: a time derived by an axis solver (no time is user-set) is known
\* on both axes
C3_Witness ==
    /\ solved /\ ~xUserSet[6] /\ ~yUserSet[6]
    /\ xKnown[6] /\ yKnown[6] /\ xVals[6] = yVals[6] /\ xVals[6] > 0

\* C4: a further autoSolve with no edit in between changes no value, known flag
\* or userSet flag.
C4_Idempotent ==
    [][(solved /\ solved' /\ edits' = edits) => UNCHANGED dataVars]_vars

\* C4 witness: a solved state in which both axes hold derived values
C4_Witness ==
    /\ solved
    /\ xKnown[1] /\ ~xUserSet[1] /\ xKnown[3] /\ ~xUserSet[3]
    /\ \E i \in Idx : yKnown[i] /\ ~yUserSet[i]

\* C5: at program start and after resetAll both axes have initialPosition known,
\* user-set and 0, acceleration known and user-set (X 0, Y -9.81), and everything
\* else unknown and not user-set.
C5_DefaultState ==
    ~solved =>
        /\ xKnown = [i \in Idx |-> i \in {0, 4}] /\ xUserSet = xKnown
        /\ yKnown = [i \in Idx |-> i \in {0, 4}] /\ yUserSet = yKnown
        /\ xVals[0] = 0 /\ yVals[0] = 0 /\ xVals[4] = 0 /\ yVals[4] = -GRAVITY
        /\ ~speedKnown /\ ~angleKnown /\ ~finalSpeedKnown
        /\ ~speedUserSet /\ ~angleUserSet /\ ~finalSpeedUserSet

\* C6: after resetAll the state is the result of a full solve on the default
\* Variable Set, so neither provenance string lists a rule of an earlier solve.
C6_ResetSolves == ~solved => St = autoSolve(initData(Globals))

\* the axis of the typed tuple
RTVals == IF rt.col = 0 THEN xVals ELSE yVals
RTKnown == IF rt.col = 0 THEN xKnown ELSE yKnown
RTUserSet == IF rt.col = 0 THEN xUserSet ELSE yUserSet
OtherUserSet == IF rt.col = 0 THEN yUserSet ELSE xUserSet

\* variable i is the only one of the typed axis that is not user-set, the
\* others still hold the tuple
OnlyCleared(i) ==
    /\ rt.col >= 0 /\ solved
    /\ \A j \in Idx : RTUserSet[j] <=> j # i
    /\ \A j \in Idx \ {i} : RTVals[j] = rt.vals[j]

\* variable i of a consistent tuple is fixed by the other six
Determined(i, vals) ==
    CASE i = 4 -> vals[6] # 0
      [] i = 6 -> vals[4] # 0 \/ vals[2] # 0
      [] OTHER -> TRUE

Recovered(i) == RTKnown[i] /\ ~RTUserSet[i] /\ RTVals[i] = rt.vals[i]

\* the other axis has nothing user-set but program defaults, no scalar is
OtherAtDefaults ==
    /\ \A j \in Idx : OtherUserSet[j] => j \in {0, 4}
    /\ ~speedUserSet /\ ~angleUserSet /\ ~finalSpeedUserSet

\* C7 as stated: whenever exactly one determined variable of a typed consistent
\* tuple is cleared and the other axis's time is not user-set, the variable is
\* known again, derived, with its original value.
C7_RoundTripAsStated ==
    \A i \in Idx :
        (OnlyCleared(i) /\ Determined(i, rt.vals) /\ ~OtherUserSet[6]) => Recovered(i)

\* C7 amended: the same, when in addition the other axis holds nothing user-set
\* but its program defaults and no coupling scalar is user-set.
C7_RoundTrip ==
    \A i \in Idx :
        (OnlyCleared(i) /\ Determined(i, rt.vals) /\ OtherAtDefaults) => Recovered(i)

\* C7 witness: the time of a Y tuple with non-zero acceleration has been cleared
\* and is derived again
C7_Witness ==
    /\ rt.col = 1 /\ OnlyCleared(6) /\ OtherAtDefaults
    /\ rt.vals[4] # 0 /\ rt.vals[6] > 0 /\ Recovered(6)

\* C8: scenario C: with X initialVelocity 5, acceleration 0 and time 3 user-set
\* (and the defaults), X displacement 15, finalVelocity 5 and finalPosition 15
\* are known and not user-set.
ScenarioC ==
    /\ solved
    /\ OnlyUserSet({0, 2, 4, 6}, {4}, FALSE, FALSE, FALSE)
    /\ xVals[0] = 0 /\ xVals[2] = 5 * Scale /\ xVals[4] = 0 /\ xVals[6] = 3 * Scale

C8_ScenarioC ==
    ScenarioC =>
        /\ xKnown[5] /\ ~xUserSet[5] /\ xVals[5] = 15 * Scale
        /\ xKnown[3] /\ ~xUserSet[3] /\ xVals[3] = 5 * Scale
        /\ xKnown[1] /\ ~xUserSet[1] /\ xVals[1] = 15 * Scale

C8_Witness == ScenarioC /\ xKnown[1] /\ xVals[1] = 15 * Scale

\* C9: scenario B: with launchSpeed 20, launchAngle 30 and Y finalPosition 0
\* user-set (and the defaults), Y displacement is 0, Y time is the larger root
\* (about 2.04), X time equals it and X finalPosition is about 35.3.
ScenarioB ==
    /\ solved
    /\ OnlyUserSet({0, 4}, {1, 4}, TRUE, TRUE, FALSE)
    /\ launchSpeed = 20 * Scale /\ launchAngle = 30 * Scale /\ yVals[1] = 0

C9_ScenarioB ==
    ScenarioB =>
        /\ yKnown[5] /\ yVals[5] = 0
        /\ yKnown[6] /\ yVals[6] >= 2000 /\ yVals[6] <= 2080
        /\ xKnown[6] /\ xVals[6] = yVals[6]
        /\ xKnown[1] /\ xVals[1] >= 35000 /\ xVals[1] <= 35600

\* C10: scenario A: with only launchSpeed and launchAngle user-set (and the
\* defaults), both initial velocities are known, not user-set and equal to
\* speed * cos(angle) and speed * sin(angle), and no time is known.
ScenarioA ==
    /\ solved
    /\ OnlyUserSet({0, 4}, {4}, TRUE, TRUE, FALSE)

C10_ScenarioA ==
    ScenarioA =>
        /\ xKnown[2] /\ ~xUserSet[2] /\ xVals[2] = FMul(launchSpeed, CosDeg(launchAngle))
        /\ yKnown[2] /\ ~yUserSet[2] /\ yVals[2] = FMul(launchSpeed, SinDeg(launchAngle))
        /\ launchSpeed = 20 * Scale => (xVals[2] \in 17200 .. 17400 /\ yVals[2] \in 9900 .. 10100)
        /\ ~xKnown[6] /\ ~yKnown[6]

C10_Witness == ScenarioA /\ launchSpeed = 20 * Scale /\ launchAngle = 30 * Scale /\ xKnown[2]

\* the known flags trySolve keeps in its locals
FrameFlags(L) ==
    [i \in Idx |-> CASE i = 0 -> L.kp0 [] i = 1 -> L.kpf [] i = 2 -> L.kv0
                     [] i = 3 -> L.kvf [] i = 4 -> L.ka [] i = 5 -> L.kd
                     [] OTHER -> L.kt]

\* C11: from the start of the pass loop until autoSolve returns no step sets a
\* known flag of an axis variable back to false, and inside trySolve no round
\* clears a known flag of the locals, which start as the flags passed in.
C11_MonotonicKnowledge ==
    [][pc.at # "idle" =>
         /\ \A i \in Idx : (xKnown[i] => xKnown'[i]) /\ (yKnown[i] => yKnown'[i])
         /\ pc.at = "call" => FrameFlags(frame') = Axis(St, pc.axis).known
         /\ (pc.at = "round" /\ pc'.at = "round")
            => \A i \in Idx : FrameFlags(frame)[i] => FrameFlags(frame')[i]]_vars

\* C11 witness: a finalVelocity derived in the first pass is still known when
\* the third pass has ended
C11_Witness ==
    /\ pc.at = "back" /\ pc.op = "finishInput"
    /\ xUserSet[2] /\ xKnown[3] /\ ~xUserSet[3]

\* the userSet flags of the 14 axis variables and the 3 coupling scalars
UserSetAll == <<xUserSet, yUserSet, speedUserSet, angleUserSet, finalSpeedUserSet>>

\* the userSet flags with that of the selected cell replaced by flag
WithSelected(flag) ==
    <<[i \in Idx |-> IF curRow = i /\ curCol = 0 THEN flag ELSE xUserSet[i]],
      [i \in Idx |-> IF curRow = i /\ curCol = 1 THEN flag ELSE yUserSet[i]],
      IF curRow = ROWS THEN flag ELSE speedUserSet,
      IF curRow = ROWS + 1 THEN flag ELSE angleUserSet,
      IF curRow = ROWS + 2 THEN flag ELSE finalSpeedUserSet>>

\* C12: a committed edit sets the userSet flag of the selected cell and no
\* other, clearCell clears that of the selected cell and no other, every step of
\* the solve that follows and every cursor key leaves all 17 userSet flags as
\* they are, and the cell cleared by clearCell is not user-set during and at the
\* end of its solve.
C12_UserSetFrame ==
    [][/\ (pc.at = "idle" /\ pc'.op = "finishInput") => UserSetAll' = WithSelected(TRUE)
       /\ (pc.at = "idle" /\ pc'.op = "clearCell") => UserSetAll' = WithSelected(FALSE)
       /\ (pc.at = "idle" /\ pc'.at = "idle") => UserSetAll' = UserSetAll
       /\ pc.at # "idle" => UserSetAll' = UserSetAll
       /\ pc.op = "clearCell" => UserSetAll' = WithSelected(FALSE)]_vars

\* C12 witness: the solve after clearing the default X acceleration is about to
\* return; the cell is unknown and not user-set, X initialPosition is still
\* user-set
C12_Witness ==
    /\ pc.at = "back" /\ pc.op = "clearCell"
    /\ curRow = 4 /\ curCol = 0
    /\ ~xUserSet[4] /\ ~xKnown[4] /\ xUserSet[0] /\ yUserSet[4]

\* C15: every solve that has been entered returns; the back-derivation is
\* reached after exactly 3 passes, a trySolve call returns after exactly 20
\* rounds, and a variable its locals leave unknown is not made known by the
\* write-back.
C15_Termination ==
    /\ [](pc.iter <= IterCap /\ pc.pass <= PassCount
          /\ pc.at \in {"idle", "call", "round", "copy", "back"}
          /\ (pc.at = "back" => pc.pass = PassCount))
    /\ [][(pc.at = "round" /\ pc'.at = "copy") =>
             /\ pc.iter = IterCap
             /\ \A i \in Idx :
                   Axis(St, pc.axis).known'[i]
                   => (Axis(St, pc.axis).known[i] \/ FrameFlags(frame)[i])]_vars
    /\ (pc.at # "idle") ~> (pc.at = "idle" /\ solved)

\* C15 witness: a solve that derived a finalVelocity is about to return after
\* its third pass with the time still unknown
C15_Witness ==
    /\ pc.at = "back" /\ pc.pass = PassCount /\ pc.op = "finishInput"
    /\ xKnown[3] /\ ~xUserSet[3] /\ ~xKnown[6] /\ ~yKnown[6]

\* the velocity-squared rule named by pc'.op has just derived its velocity
DerivedVf == pc'.op = "RuleVfSquared" /\ ~frame.kvf /\ frame'.kvf

DerivedV0 == pc'.op = "RuleV0Squared" /\ ~frame.kv0 /\ frame'.kv0

\* v is zero or has the sign of s
SignOf(v, s) == v = 0 \/ Sgn(v) = Sgn(s)

\* the velocity-squared rules leave the locals alone when the radicand v*v + r
\* is negative
NoRootNoFire(name, v, r) ==
    (pc'.op = name /\ FMul(v, v) + r < 0) => frame' = frame

\* C18 as stated: a velocity derived by vf^2 = v0^2 + 2*a*d or by the inverse
\* v0^2 = vf^2 - 2*a*d has the sign of the known velocity if that is non-zero
\* and otherwise the sign of a*d; neither rule fires on a negative radicand.
C18_SignResolutionAsStated ==
    [][/\ DerivedVf => IF frame.v0 # 0 THEN SignOf(frame'.vf, frame.v0)
                       ELSE SignOf(frame'.vf, FMul(frame.a, frame.d))
       /\ DerivedV0 => IF frame.vf # 0 THEN SignOf(frame'.v0, frame.vf)
                       ELSE SignOf(frame'.v0, FMul(frame.a, frame.d))
       /\ NoRootNoFire("RuleVfSquared", frame.v0, FMul(2 * frame.a, frame.d))
       /\ NoRootNoFire("RuleV0Squared", frame.vf, -FMul(2 * frame.a, frame.d))]_vars

\* C18 amended: the same for vf; a v0 derived by the inverse rule has the sign
\* of vf if vf is non-zero and is otherwise positive or zero, the sign opposite
\* to that of a*d.
C18_SignResolution ==
    [][/\ DerivedVf => IF frame.v0 # 0 THEN SignOf(frame'.vf, frame.v0)
                       ELSE SignOf(frame'.vf, FMul(frame.a, frame.d))
       /\ DerivedV0 => IF frame.vf # 0 THEN SignOf(frame'.v0, frame.vf)
                       ELSE SignOf(frame'.v0, -FMul(frame.a, frame.d))
       /\ NoRootNoFire("RuleVfSquared", frame.v0, FMul(2 * frame.a, frame.d))
       /\ NoRootNoFire("RuleV0Squared", frame.vf, -FMul(2 * frame.a, frame.d))]_vars

\* C18 witness: v0 has been derived by the inverse rule from vf = 0 and a
\* negative a*d
C18_Witness ==
    /\ pc.op = "RuleV0Squared" /\ frame.kv0 /\ frame.kvf /\ frame.vf = 0
    /\ frame.eq = <<"v0^2 = vf^2 - 2*a*d">>
    /\ FMul(frame.a, frame.d) < 0 /\ frame.v0 > 0

\* the rules that derive the time
TimeRules == {"RuleTLinear", "RuleTAverage", "RuleTQuadVf", "RuleTQuadV0"}

\* the time of the locals after a step is the larger of the roots r1, r2 if it
\* exceeds 0.001, else the smaller if that is not negative, else not known
TieBreak(r1, r2) ==
    LET hi == IF r1 > r2 THEN r1 ELSE r2
        lo == IF r1 < r2 THEN r1 ELSE r2
    IN  IF hi > TimeEps THEN frame'.kt /\ frame'.t = hi
        ELSE IF lo >= 0 THEN frame'.kt /\ frame'.t = lo
        ELSE ~frame'.kt

\* the time of the locals after a step is the candidate c if it is not
\* negative, else not known
Linear(c) == IF c >= 0 THEN frame'.kt /\ frame'.t = c ELSE ~frame'.kt

\* C19: a rule that marks the time known stores a value >= 0: the linear, the
\* average-velocity and the a = 0 forms store their candidate unless it is
\* negative, the quadratic forms the larger root if it exceeds 0.001 and
\* otherwise the smaller root if it is not negative; else the flag stays false.
C19_NegativeTimeRejected ==
    [][(pc'.op \in TimeRules /\ ~frame.kt) =>
         /\ frame'.kt => frame'.t >= 0
         /\ (pc'.op = "RuleTLinear" /\ frame.kv0 /\ frame.kvf /\ frame.ka /\ frame.a # 0)
            => Linear(FDiv(frame.vf - frame.v0, frame.a))
         /\ (pc'.op = "RuleTAverage" /\ frame.kv0 /\ frame.kvf /\ frame.kd
               /\ frame.v0 + frame.vf # 0)
            => Linear(FDiv(2 * frame.d, frame.v0 + frame.vf))
         /\ (pc'.op = "RuleTQuadV0" /\ frame.kv0 /\ frame.kd /\ frame.ka) =>
               LET disc == FMul(frame.v0, frame.v0) + FMul(2 * frame.a, frame.d)
               IN  IF frame.a = 0
                   THEN (IF frame.v0 # 0 THEN Linear(FDiv(frame.d, frame.v0))
                         ELSE ~frame'.kt)
                   ELSE IF disc < 0 THEN ~frame'.kt
                   ELSE TieBreak(FDiv(-frame.v0 + FSqrt(disc), frame.a),
                                 FDiv(-frame.v0 - FSqrt(disc), frame.a))
         /\ (pc'.op = "RuleTQuadVf" /\ frame.kvf /\ frame.kd /\ frame.ka) =>
               LET disc == FMul(frame.vf, frame.vf) - FMul(2 * frame.a, frame.d)
               IN  IF frame.a = 0
                   THEN (IF frame.vf # 0 THEN Linear(FDiv(frame.d, frame.vf))
                         ELSE ~frame'.kt)
                   ELSE IF disc < 0 THEN ~frame'.kt
                   ELSE TieBreak(FDiv(frame.vf - FSqrt(disc), frame.a),
                                 FDiv(frame.vf + FSqrt(disc), frame.a))]_vars

\* C19 witness: the quadratic in v0 has the roots 0 and 2 and the time is the
\* larger one
C19_Witness ==
    /\ pc.op = "RuleTQuadV0" /\ frame.eq = <<"d = v0*t + .5*a*t^2">>
    /\ frame.kt /\ frame.t = -FDiv(2 * frame.v0, frame.a) /\ frame.t > 0
    /\ frame.d = 0

\* the denominator of the rule named name on the locals L; 1 for a rule that
\* does not divide
Denominator(name, L) ==
    CASE name \in {"RuleTLinear", "RuleDFromSquares"} -> L.a
      [] name \in {"RuleAFromVT", "RuleV0FromD", "RuleAFromDV0", "RuleV0Average",
                   "RuleVfAverage", "RuleVfFromD", "RuleAFromDVf"} -> L.t
      [] name = "RuleTAverage" -> L.v0 + L.vf
      [] name = "RuleTQuadVf" -> IF L.a # 0 THEN L.a ELSE L.vf
      [] name = "RuleTQuadV0" -> IF L.a # 0 THEN L.a ELSE L.v0
      [] name = "RuleAFromSquares" -> L.d
      [] OTHER -> 1

\* C20: a rule applied to locals on which its denominator (t, a, d, v0 + vf,
\* or v0 or vf in the a = 0 fallback) is zero leaves the locals as they are: it
\* stores nothing and sets no flag.
C20_NoDivisionByZero ==
    [][Denominator(pc'.op, frame) = 0 => frame' = frame]_vars

\* C20 witness: with v0, vf known and t known to be 0 the rule a = (vf - v0) / t
\* has been skipped and left the acceleration unknown
C20_Witness ==
    /\ pc.op = "RuleAFromVT" /\ frame.kv0 /\ frame.kvf /\ frame.kt /\ frame.t = 0
    /\ ~frame.ka /\ frame.eq = <<>>

\* finalSpeed^2 - c^2 for a known component c
Radicand(c) == FMul(finalSpeed, finalSpeed) - FMul(c, c)

\* C13: after a solve with finalSpeed user-set, when one axis's finalVelocity is
\* known (user-set or derived by the axis solver in that solve), the other
\* axis's is not user-set and finalSpeed^2 - component^2 >= 0, the other axis's
\* finalVelocity is known as well; decomposed from a user-set component, Y's is
\* negative or zero and X's positive or zero.
C13_FinalSpeedDecomposition ==
    (solved /\ finalSpeedUserSet) =>
        /\ (xKnown[3] /\ ~yUserSet[3] /\ Radicand(xVals[3]) >= 0) => yKnown[3]
        /\ (yKnown[3] /\ ~xUserSet[3] /\ Radicand(yVals[3]) >= 0) => xKnown[3]
        /\ (xUserSet[3] /\ ~yUserSet[3] /\ yKnown[3]) => yVals[3] <= 0
        /\ (yUserSet[3] /\ ~xUserSet[3] /\ xKnown[3]) => xVals[3] >= 0

\* C14: a step that ends with a solve leaves launchSpeed, launchAngle and
\* finalSpeed, when not user-set, known exactly when both initial velocities
\* (both final velocities for finalSpeed) are known, and leaves the value of a
\* scalar that is user-set before and after the step as it was.
C14_BackDerivedScalars ==
    [][solved' =>
         /\ ~speedUserSet' => (speedKnown' <=> (xKnown'[2] /\ yKnown'[2]))
         /\ ~angleUserSet' => (angleKnown' <=> (xKnown'[2] /\ yKnown'[2]))
         /\ ~finalSpeedUserSet' => (finalSpeedKnown' <=> (xKnown'[3] /\ yKnown'[3]))
         /\ (speedUserSet /\ speedUserSet' /\ ~(curRow = ROWS /\ edits' # edits))
            => launchSpeed' = launchSpeed
         /\ (angleUserSet /\ angleUserSet' /\ ~(curRow = ROWS + 1 /\ edits' # edits))
            => launchAngle' = launchAngle
         /\ (finalSpeedUserSet /\ finalSpeedUserSet' /\ ~(curRow = ROWS + 2 /\ edits' # edits))
            => finalSpeed' = finalSpeed]_vars

\* C14 witness: launchSpeed and launchAngle are back-derived from two typed
\* initial velocities while finalSpeed stays unknown with one final velocity
\* known
C14_Witness ==
    /\ solved /\ xUserSet[2] /\ yUserSet[2]
    /\ ~speedUserSet /\ speedKnown /\ ~angleUserSet /\ angleKnown
    /\ xKnown[3] /\ ~yKnown[3] /\ ~finalSpeedKnown

\* the stale value and known flag of every variable and scalar that is not
\* user-set replaced by val and flag
Stale(S, val, flag) ==
    [S EXCEPT
       !.xVals = [i \in Idx |-> IF S.xUserSet[i] THEN S.xVals[i] ELSE val],
       !.yVals = [i \in Idx |-> IF S.yUserSet[i] THEN S.yVals[i] ELSE val],
       !.xKnown = [i \in Idx |-> IF S.xUserSet[i] THEN S.xKnown[i] ELSE flag],
       !.yKnown = [i \in Idx |-> IF S.yUserSet[i] THEN S.yKnown[i] ELSE flag],
       !.launchSpeed = IF S.speedUserSet THEN S.launchSpeed ELSE val,
       !.launchAngle = IF S.angleUserSet THEN S.launchAngle ELSE val,
       !.finalSpeed = IF S.finalSpeedUserSet THEN S.finalSpeed ELSE val,
       !.speedKnown = IF S.speedUserSet THEN S.speedKnown ELSE flag,
       !.angleKnown = IF S.angleUserSet THEN S.angleKnown ELSE flag,
       !.finalSpeedKnown = IF S.finalSpeedUserSet THEN S.finalSpeedKnown ELSE flag]

\* the known flags and the values of the known variables and scalars
KnownPart(S) ==
    [xKnown |-> S.xKnown, yKnown |-> S.yKnown,
     xVals |-> [i \in Idx |-> IF S.xKnown[i] THEN S.xVals[i] ELSE 0],
     yVals |-> [i \in Idx |-> IF S.yKnown[i] THEN S.yVals[i] ELSE 0],
     speedKnown |-> S.speedKnown, angleKnown |-> S.angleKnown,
     finalSpeedKnown |-> S.finalSpeedKnown,
     launchSpeed |-> IF S.speedKnown THEN S.launchSpeed ELSE 0,
     launchAngle |-> IF S.angleKnown THEN S.launchAngle ELSE 0,
     finalSpeed |-> IF S.finalSpeedKnown THEN S.finalSpeed ELSE 0]

\* C16: a solve from the current Variable Set, a solve from the same user-set
\* flags and values with everything else unknown and 0, and a solve from the
\* same with everything else marked known and holding 7 produce the same known
\* flags and the same known values.  (autoSolve does not read the cursor and
\* the cursor keys reach the first cell from every cell without touching the
\* Variable Set, so each Variable Set is compared once, with the cursor there.)
C16_DerivedDoNotPersist ==
    (curRow = 0 /\ curCol = 0) =>
        \E S \in {autoSolve(St)} :
            /\ KnownPart(autoSolve(Stale(St, 0, FALSE))) = KnownPart(S)
            /\ KnownPart(autoSolve(Stale(St, 7 * Scale, TRUE))) = KnownPart(S)

\* C16 witness: a solved state that holds derived non-zero values on both axes,
\* which a solve from the user-set part and stale flags and values derives again
C16_Witness ==
    /\ solved
    /\ \E i \in Idx : xKnown[i] /\ ~xUserSet[i] /\ xVals[i] # 0
    /\ \E i \in Idx : yKnown[i] /\ ~yUserSet[i] /\ yVals[i] # 0
    /\ KnownPart(autoSolve(Stale(St, 7 * Scale, TRUE))) = KnownPart(St)

\* no further catalogue round makes a variable of the axis known
RoundFix(A) ==
    LET Flags(L) == <<L.kp0, L.kpf, L.kv0, L.kvf, L.ka, L.kd, L.kt>>
        Fix(L) == Flags(Round(L)) = Flags(L)
    IN  Then(Rounds(Frame(A), IterCap), Fix)

\* the axis-solver calls of pass number pass + 1 of the solve that produced S
\* stop on a fixpoint of the catalogue
CallsFix(S, pass) ==
    LET Body(R) == RoundFix(AxisX(R)) /\ RoundFix(AxisY(CopyTimeToY(SolveX(R))))
    IN  Then(Passes(Seeds(S), pass), Body)

\* a fourth pass on S changes no axis value and no known flag, and the calls of
\* the three passes of the solve that produced S stopped on fixpoints
BoundsSufficient(S) ==
    /\ \E P \in {Pass(S)} :
          /\ P.xKnown = S.xKnown /\ P.yKnown = S.yKnown
          /\ P.xVals = S.xVals /\ P.yVals = S.yVals
    /\ \A pass \in 0 .. (PassCount - 1) : CallsFix(S, pass)

\* C17: after a solve a fourth pass makes no variable known and changes no
\* value, and each axis-solver call of the three passes stops because no rule
\* can fire, not because of the cap of 20 rounds: for the Variable Set the run
\* starts from and for the one every later solve returns.
C17_BoundsSufficient ==
    /\ solved => BoundsSufficient(St)
    /\ [][(solved' /\ edits' # edits) => \E S \in {St'} : BoundsSufficient(S)]_vars

\* C17 witness: the cleared time of a Y tuple is derived on Y in the first pass
\* and lets X derive its displacement in the second
C17_Witness ==
    /\ solved /\ rt.col = 1
    /\ ~yUserSet[6] /\ yKnown[6] /\ ~xUserSet[5] /\ xKnown[5]
    /\ \E S \in {Passes(Seeds(St), 1)} : ~S.xKnown[5] /\ S.xKnown[6]

\* initial position and acceleration of both axes are known
PlotInputsKnown(S) == S.xKnown[0] /\ S.xKnown[4] /\ S.yKnown[0] /\ S.yKnown[4]

\* C21: whenever the mini plot of drawTable or drawGraph draws a trajectory
\* (drawTable runs on every pass through the main loop, drawGraph on the Graph
\* key), the initial position and the acceleration of both axes are known.
C21_PlotInputsKnown ==
    (MiniPlot(St) \/ drawGraph(St)) => PlotInputsKnown(St)

\* two fixed-point values agree to 0.05
Close(x, y) == Abs(x - y) * 20 <= Scale

\* the known values of an axis satisfy vf = v0 + a*t and d = v0*t + a*t*t/2
Consistent(vals, known) ==
    /\ (known[2] /\ known[3] /\ known[4] /\ known[6]) =>
           Close(vals[3], vals[2] + FMul(vals[4], vals[6]))
    /\ (known[2] /\ known[4] /\ known[5] /\ known[6]) =>
           Close(vals[5], FMul(vals[2], vals[6]) + HalfATT([a |-> vals[4], t |-> vals[6]]))

\* a minimal set of inputs on an axis: v0 and a given, the displacement given
\* either as d or as both positions, vf and t left to the solver
MinimalInputs(userSet) ==
    /\ userSet[2] /\ userSet[4] /\ ~userSet[3] /\ ~userSet[6]
    /\ userSet[5] # (userSet[0] /\ userSet[1])

\* nothing typed: at most the default initial position and acceleration
OnlyDefaults(userSet) == \A i \in Idx : userSet[i] => i \in {0, 4}

\* C23: after a solve with no scalar typed, an axis whose inputs are a minimal
\* set (v0, a and the displacement, the other axis holding defaults only) has
\* known values that satisfy vf = v0 + a*t and d = v0*t + a*t*t/2.
C23_DerivedConsistent ==
    (solved /\ ~speedUserSet /\ ~angleUserSet /\ ~finalSpeedUserSet) =>
        /\ (MinimalInputs(xUserSet) /\ OnlyDefaults(yUserSet)) => Consistent(xVals, xKnown)
        /\ (MinimalInputs(yUserSet) /\ OnlyDefaults(xUserSet)) => Consistent(yVals, yKnown)

\* C24: the cursor is on a real cell: 0 <= curRow <= 9 and curCol is 0 or 1,
\* whatever arrow keys were pressed, several in one pass of the loop included;
\* rows below ROWS index the axis arrays, rows 7, 8 and 9 are the scalars.
C24_CursorOnCell ==
    /\ curRow \in 0 .. (ROWS + 2)
    /\ curCol \in 0 .. (COLS - 1)

\* C24 witness: Down and Left pressed in one pass took the cursor from the
\* first cell through row 1 to launchAngle
C24_Witness ==
    /\ prev = {"down", "left"}
    /\ curRow = ROWS + 1 /\ curCol = 0

\* the positions of the decimal points in the entry
Dots == {i \in 1 .. Len(inputBuf) : inputBuf[i] = "."}

\* C25: the numeric entry is well-formed after every pass of the main loop:
\* inputLen is the number of characters in inputBuf and at most 10, so the
\* characters and the terminator fit the 12 bytes; the buffer holds at most one
\* decimal point; hasDecimal holds exactly when it holds one.
C25_BufferWellFormed ==
    /\ inputLen = Len(inputBuf)
    /\ inputLen <= InputCap /\ inputLen + 1 <= BufSize
    /\ Cardinality(Dots) <= 1
    /\ hasDecimal <=> Dots # {}

\* C25 witness: a full entry with a decimal point, still being edited
C25_Witness ==
    /\ inputMode /\ inputLen = InputCap /\ hasDecimal
    /\ inputBuf[1] = "1" /\ inputBuf[InputCap] = "1"

\* the pass left navigation mode on, the Variable Set and the provenance as
\* they were, ran no solve and did not leave the loop
BackToNavigation ==
    /\ ~inputMode'
    /\ UNCHANGED <<dataVars, xEqUsed, yEqUsed, solved, edits>>
    /\ running'

\* C22: a pass of the main loop in edit mode in which Clear is newly pressed
\* (and Enter is not), or in which Enter is newly pressed on an entry that is
\* empty and has no sign, returns to navigation mode, changes no value, known
\* or userSet flag, runs no solve and keeps the program running; and no pass
\* with Clear held down from the scan before leaves the loop.
C22_CancelChangesNothing ==
    [][/\ (inputMode /\ "clear" \in prev' \ prev /\ "enter" \notin prev' \ prev)
            => BackToNavigation
       /\ (inputMode /\ "enter" \in prev' \ prev /\ inputLen' = 0 /\ ~isNegative')
            => BackToNavigation
       /\ ("clear" \in prev /\ "clear" \in prev') => running']_vars

\* C22 witness: an entry with characters was cancelled, Clear is still down
\* and the program is in navigation mode, running, with nothing committed
C22_Witness ==
    /\ ~inputMode /\ running /\ prev = {"clear"}
    /\ inputLen > 0 /\ edits = 0 /\ ~solved

====
